---- MODULE Spec2Model ----
(***************************************************************************)
(* Worktree Wizard: the worktree lifecycle core.                           *)
(*                                                                         *)
(* Strings are sequences of one-character strings, so that slugify, the    *)
(* tab titles and the branch names are computed the way the code computes  *)
(* them.  The character U+2727 of the custom tab title is the one token    *)
(* "U+2727", and the backquote is the one token "U+0060".                  *)
(***************************************************************************)
EXTENDS Integers, Sequences, FiniteSets, Bags, TLC

\* ------------------------------------------------------------------------
\* Characters and strings
\* ------------------------------------------------------------------------
Upper == <<"A","B","C","D","E","F","G","H","I","J","K","L","M",
           "N","O","P","Q","R","S","T","U","V","W","X","Y","Z">>

Lower == <<"a","b","c","d","e","f","g","h","i","j","k","l","m",
           "n","o","p","q","r","s","t","u","v","w","x","y","z">>

Digits == <<"0","1","2","3","4","5","6","7","8","9">>

Range(s) == { s[i] : i \in DOMAIN s }

UpperSet == Range(Upper)
DigitSet == Range(Digits)
LowerAlnumSet == Range(Lower) \cup Range(Digits)

IsDigit(c) == c \in DigitSet

IsLowerAlnum(c) == c \in LowerAlnumSet

\* String.prototype.toLowerCase, one character
ToLowerChar(c) ==
  IF c \in UpperSet THEN Lower[CHOOSE i \in DOMAIN Upper : Upper[i] = c] ELSE c

toLowerCase(s) == <<>> \o [i \in DOMAIN s |-> ToLowerChar(s[i])]

\* String.prototype.slice(0, n)
Slice0(s, n) == IF Len(s) > n THEN SubSeq(s, 1, n) ELSE s

\* String.prototype.includes / AppleScript "contains"
Contains(s, t) ==
  \E i \in 0..(Len(s) - Len(t)) : SubSeq(s, i + 1, i + Len(t)) = t

StartsWith(s, t) == Len(s) >= Len(t) /\ SubSeq(s, 1, Len(t)) = t

\* String(n) for a non-negative integer
RECURSIVE NumToStr(_)
NumToStr(n) ==
  IF n < 10 THEN <<Digits[n + 1]>>
  ELSE NumToStr(n \div 10) \o <<Digits[(n % 10) + 1]>>

DigitVal(c) == (CHOOSE i \in DOMAIN Digits : Digits[i] = c) - 1

\* parseInt(s, 10) for a string of digits
RECURSIVE ParseInt(_)
ParseInt(s) ==
  IF s = <<>> THEN 0
  ELSE 10 * ParseInt(SubSeq(s, 1, Len(s) - 1)) + DigitVal(s[Len(s)])

\* ------------------------------------------------------------------------
\* utils/slug.ts
\* ------------------------------------------------------------------------
SLUG_MAX_LENGTH == 50

\* .replace(/[^a-z0-9]+/g, '-')
RECURSIVE ReplaceNonAlnumRuns(_)
ReplaceNonAlnumRuns(s) ==
  IF s = <<>> THEN <<>>
  ELSE IF IsLowerAlnum(Head(s)) THEN <<Head(s)>> \o ReplaceNonAlnumRuns(Tail(s))
  ELSE IF Len(s) > 1 /\ ~IsLowerAlnum(s[2]) THEN ReplaceNonAlnumRuns(Tail(s))
  ELSE <<"-">> \o ReplaceNonAlnumRuns(Tail(s))

\* .replace(/^-+|-+$/g, '')
RECURSIVE TrimHyphens(_)
TrimHyphens(s) ==
  IF s = <<>> THEN <<>>
  ELSE IF Head(s) = "-" THEN TrimHyphens(Tail(s))
  ELSE IF s[Len(s)] = "-" THEN TrimHyphens(SubSeq(s, 1, Len(s) - 1))
  ELSE s

\* .replace(/-+/g, '-')
RECURSIVE CollapseHyphens(_)
CollapseHyphens(s) ==
  IF Len(s) < 2 THEN s
  ELSE IF s[1] = "-" /\ s[2] = "-" THEN CollapseHyphens(Tail(s))
  ELSE <<Head(s)>> \o CollapseHyphens(Tail(s))

slugify(text) ==
  Slice0(CollapseHyphens(TrimHyphens(ReplaceNonAlnumRuns(toLowerCase(text)))),
         SLUG_MAX_LENGTH)

IssuePrefix == <<"i","s","s","u","e","-">>

\* variant: no hyphen between the number and the slug
createBranchNameUnseparated(issueNumber, title) ==
  IssuePrefix \o NumToStr(issueNumber) \o slugify(title)

\* `issue-${issueNumber}-${slug}`
createBranchName(issueNumber, title) ==
  IssuePrefix \o NumToStr(issueNumber) \o <<"-">> \o slugify(title)

\* the longest run of digits at the start of s
RECURSIVE LeadingDigits(_)
LeadingDigits(s) ==
  IF s = <<>> \/ ~IsDigit(Head(s)) THEN <<>>
  ELSE <<Head(s)>> \o LeadingDigits(Tail(s))

\* null, where the code has a number or null
Null == -1

\* variant: the pattern is not anchored at the start of the branch name
extractIssueNumberAnywhere(branchName) ==
  LET found == { i \in 0..(Len(branchName) - Len(IssuePrefix)) :
                   /\ SubSeq(branchName, i + 1, i + Len(IssuePrefix)) = IssuePrefix
                   /\ LeadingDigits(SubSeq(branchName, i + Len(IssuePrefix) + 1,
                                           Len(branchName))) # <<>> }
  IN IF found = {} THEN Null
     ELSE LET at == CHOOSE i \in found : \A j \in found : i <= j
          IN ParseInt(LeadingDigits(SubSeq(branchName, at + Len(IssuePrefix) + 1,
                                           Len(branchName))))

\* branchName.match(/^issue-(\d+)/)
extractIssueNumber(branchName) ==
  IF StartsWith(branchName, IssuePrefix)
     /\ LeadingDigits(SubSeq(branchName, Len(IssuePrefix) + 1, Len(branchName))) # <<>>
  THEN ParseInt(LeadingDigits(SubSeq(branchName, Len(IssuePrefix) + 1, Len(branchName))))
  ELSE Null

\* ------------------------------------------------------------------------
\* services/terminal/types.ts
\* ------------------------------------------------------------------------
TAB_TITLE_MAX_LENGTH == 30

Ellipsis == <<".",".",".">>

Truncate(s) ==
  IF Len(s) > TAB_TITLE_MAX_LENGTH
  THEN SubSeq(s, 1, TAB_TITLE_MAX_LENGTH) \o Ellipsis
  ELSE s

getTabTitle(issueNumber, issueTitle) ==
  <<"#">> \o NumToStr(issueNumber) \o <<":"," ">> \o Truncate(issueTitle)

getCustomTabTitle(branchName) ==
  <<"U+2727"," ">> \o Truncate(branchName)


Undefined == <<"undefined">>

\* customFrame2Command ?? config.frame2.command
buildFrames(directory, cfg, customFrame2Command) ==
  (IF cfg.frame1.enabled
   THEN <<[directory |-> directory, command |-> cfg.frame1.command]>>
   ELSE <<>>)
  \o
  (IF cfg.frame2.enabled
   THEN <<[directory |-> directory,
           command |-> IF customFrame2Command # Undefined
                       THEN customFrame2Command ELSE cfg.frame2.command]>>
   ELSE <<>>)

\* prompt.replace(/'/g, "'\\''")
RECURSIVE ShellEscapeQuotes(_)
ShellEscapeQuotes(s) ==
  IF Len(s) = 0 THEN <<>>
  ELSE IF Len(s) = 1 THEN (IF s[1] = "'" THEN <<"'","\\","'","'">> ELSE s)
  ELSE ShellEscapeQuotes(SubSeq(s, 1, Len(s) \div 2))
       \o ShellEscapeQuotes(SubSeq(s, (Len(s) \div 2) + 1, Len(s)))

PromptA == <<"W","o","r","k"," ","o","n"," ","G","i","t","H","u","b"," ",
             "i","s","s","u","e"," ","#">>
PromptB == <<"."," ","Y","o","u"," ","c","a","n"," ","u","s","e"," ","U+0060",
             "g","h"," ","i","s","s","u","e"," ","v","i","e","w"," ">>
PromptC == <<"U+0060"," ","t","o"," ","s","e","e"," ","f","u","l","l"," ",
             "i","s","s","u","e"," ","d","e","t","a","i","l","s",".">>

buildIssuePrompt(aiCommand, issueNumber, issueTitle) ==
  aiCommand \o <<" ","'">>
  \o ShellEscapeQuotes(PromptA \o NumToStr(issueNumber) \o <<":"," ">> \o issueTitle
                       \o PromptB \o NumToStr(issueNumber) \o PromptC)
  \o <<"'">>

\* ------------------------------------------------------------------------
\* The world the program runs in: one repository, one issue tracker
\* ------------------------------------------------------------------------
Main == <<"m","a","i","n">>
Master == <<"m","a","s","t","e","r">>

\* the default value of every baseBranch parameter in services/git.ts
DefaultBaseBranch == Main

TitleShort == <<"F","i","x"," ","B","u","g"," ","#","1","!">>
\* 31 characters, one more than a tab title keeps
TitleLong == <<"A","d","d"," ","d","a","r","k"," ","m","o","d","e"," ",
               "t","o","g","g","l","e"," ","t","o"," ","s","e","t","t","i","n","g">>

\* the open issues of the tracker
TrackerIssues == << [number |-> 7, title |-> TitleShort],
                    [number |-> 42, title |-> TitleLong] >>

Feat == <<"f","e","a","t">>

\* the branch names the user types into the "New Worktree" dialog
CustomNames == { Feat }

\* the worktrees that may exist before the program starts
InitialWorktrees == { <<>>, <<Feat>>, <<createBranchName(7, TitleShort)>> }

\* bound: the summon workflows started in one session
MaxSummons == 1

CmdInstall == <<"n","p","m"," ","i","n","s","t","a","l","l">>
CmdBuild == <<"b","u","i","l","d">>
CmdDev == <<"n","p","m"," ","r","u","n"," ","d","e","v">>
CmdClaude == <<"c","l","a","u","d","e">>

\* setupCommands: null is the empty tuple's sibling NoCommands
NoCommands == <<Undefined>>

MkConfig(term, f1, f2, setup, gh) ==
  [ terminalType |-> term,
    frame1 |-> [enabled |-> f1, command |-> CmdDev],
    frame2 |-> [enabled |-> f2, command |-> CmdClaude],
    defaultAICommand |-> CmdClaude,
    setupCommands |-> setup,
    githubIssuesEnabled |-> gh ]

\* config/types.ts DEFAULT_CONFIG
DEFAULT_CONFIG == MkConfig("iterm", TRUE, TRUE, <<CmdInstall>>, TRUE)

\* the configurations a config.json can hold (validateConfig checks no value)
Configs ==
  { DEFAULT_CONFIG,
    MkConfig("terminal", TRUE, TRUE, <<CmdInstall, CmdBuild>>, TRUE),
    MkConfig("iterm", TRUE, FALSE, NoCommands, TRUE),
    MkConfig("iterm", FALSE, FALSE, <<CmdInstall>>, FALSE),
    MkConfig("kitty", TRUE, TRUE, <<CmdInstall>>, TRUE),
    MkConfig("terminal", FALSE, TRUE, <<>>, FALSE) }

RepoPrefix == <<"/","w","/","r","e","p","o","-">>

\* utils/paths.ts: path.join(parentDir, `${repoName}-${branchName}`)
getWorktreePath(branchName) == RepoPrefix \o branchName


RepoRoot == <<"/","w","/","r","e","p","o">>

VARIABLES
  config,         \* the WizardConfig passed to runApp
  defaultBranch,  \* the one base branch of the repository: main or master
  branches,       \* world: the local branches other than the base branch
  worktrees,      \* world: the branches of the linked worktrees, in list order
  windows,        \* world: the bag of open terminal tabs, [title, dir]
  issueItems,     \* createSplitList: let issueItems
  worktreeItems,  \* createSplitList: let worktreeItems
  footerError,    \* createFooter: the error last given to setError
  pc,             \* where the running workflow is
  item,           \* the ListItem the running workflow was started on
  run,            \* the local variables of the running workflow
  calls,          \* the service calls of the running workflow, in order
  dialog,         \* the message dialog on screen
  summons         \* the summon workflows started so far

\* the screen of runApp: which widget has the keyboard, the detail popup,
\* and the workflows that have started and not yet shown their result
VARIABLES
  focused,            \* the widget on which focus() was called last
  popupShown,         \* createDetailPopup: popup is not hidden
  currentItem,        \* createDetailPopup: let currentItem
  selectionCooldown,  \* createSplitList: let selectionCooldown
  inFlight            \* the bag of doSummon/doBanish/doLock/doUnlock calls awaiting

workflowVars == << config, defaultBranch, branches, worktrees, windows,
                   issueItems, worktreeItems, footerError,
                   pc, item, run, calls, dialog, summons >>

screenVars == << focused, popupShown, currentItem, selectionCooldown, inFlight >>

\* one call of parseWorktreeOutput
VARIABLES
  output,     \* parseWorktreeOutput: the argument
  records,    \* the records the argument was written from, each a list of lines
  lines,      \* parseWorktreeOutput: const lines
  lineIndex,  \* parseWorktreeOutput: the lines the for loop has taken
  current,    \* parseWorktreeOutput: let current
  parsed,     \* parseWorktreeOutput: const worktrees
  parserPc    \* parseWorktreeOutput: before the split, in the loop, returned

parserVars == << output, records, lines, lineIndex, current, parsed, parserPc >>

\* one call of slugify, createBranchName or extractIssueNumber
VARIABLES
  slugCall,    \* the calls to make and the calls made
  slugText,    \* the text or title argument
  slugNumber,  \* the issueNumber argument
  slugBranch,  \* the branchName argument, or the branch name returned
  slugResult   \* the slug or the issue number returned

slugVars == << slugCall, slugText, slugNumber, slugBranch, slugResult >>

\* one call of a function of utils/exec.ts, services/setup.ts or
\* services/git.ts, or of doLock / doUnlock
VARIABLES
  svcCall,    \* the function called and its arguments
  svcWorld,   \* what the processes it starts will do
  svcLocals,  \* its local variables
  svcPc,      \* where it is
  svcTrace,   \* the processes it started and the callbacks it made, in order
  svcReturn   \* what it returned or threw

serviceVars == << svcCall, svcWorld, svcLocals, svcPc, svcTrace, svcReturn >>

\* the variables the workflow steps leave alone
other == << screenVars, parserVars, slugVars, serviceVars >>

\* the variables the screen leaves alone
offScreen == << workflowVars, parserVars, slugVars, serviceVars >>

\* the variables the parser leaves alone
offParser == << workflowVars, screenVars, slugVars, serviceVars >>

\* the variables the slug functions leave alone
offSlug == << workflowVars, screenVars, parserVars, serviceVars >>

\* the variables the service functions leave alone
offService == << workflowVars, screenVars, parserVars, slugVars >>

vars == << workflowVars, other >>

world == << branches, worktrees, windows >>
ui == << issueItems, worktreeItems, footerError >>

\* runApp: let issues, the issues last handed to setIssues
issues == <<>> \o [i \in DOMAIN issueItems |-> issueItems[i].issue]

\* ------------------------------------------------------------------------
\* Worktree values and list items
\* ------------------------------------------------------------------------
NoWorktree == [path |-> <<>>, branch |-> <<>>, isMain |-> FALSE, issueNumber |-> Null]
NoIssue == [number |-> Null, title |-> <<>>]

\* the Worktree that parseWorktreeOutput builds from a record
MkWorktree(path, branch) ==
  LET isMain == branch = Main \/ branch = Master
  IN [ path |-> path, branch |-> branch, isMain |-> isMain,
       issueNumber |-> IF isMain THEN Null ELSE extractIssueNumber(branch) ]

\* listWorktrees: the main worktree first, then the linked ones
listWorktrees ==
  <<MkWorktree(RepoRoot, defaultBranch)>>
  \o [i \in DOMAIN worktrees |-> MkWorktree(getWorktreePath(worktrees[i]), worktrees[i])]

RECURSIVE SelectNonMain(_)
SelectNonMain(wts) ==
  IF wts = <<>> THEN <<>>
  ELSE (IF Head(wts).isMain THEN <<>> ELSE <<Head(wts)>>) \o SelectNonMain(Tail(wts))

\* worktrees.find(wt => wt.issueNumber === issue.number)
FindLinked(wts, number) ==
  IF \E i \in DOMAIN wts : wts[i].issueNumber = number
  THEN wts[CHOOSE i \in DOMAIN wts :
             /\ wts[i].issueNumber = number
             /\ \A j \in DOMAIN wts : wts[j].issueNumber = number => i <= j]
  ELSE NoWorktree

setIssues(iss, wts) ==
  <<>> \o
  [i \in DOMAIN iss |->
     [ type |-> "issue", issue |-> iss[i],
       worktree |-> FindLinked(wts, iss[i].number),
       hasWorktree |-> FindLinked(wts, iss[i].number) # NoWorktree ]]

CreateCustomItem ==
  [type |-> "create-custom", issue |-> NoIssue, worktree |-> NoWorktree,
   hasWorktree |-> FALSE]

setWorktrees(wts) ==
  <<CreateCustomItem>>
  \o [i \in DOMAIN SelectNonMain(wts) |->
        [ type |-> "custom-worktree", issue |-> NoIssue,
          worktree |-> SelectNonMain(wts)[i], hasWorktree |-> TRUE ]]

\* footer.setError(null)
NoError == ""

\* refreshData; listOk and fetchOk are the outcomes of the two queries
refreshData(listOk, fetchOk) ==
  IF ~listOk
  THEN /\ footerError' = "Failed to list worktrees"
       /\ UNCHANGED << issueItems, worktreeItems >>
  ELSE LET newIssues == IF config.githubIssuesEnabled
                        THEN (IF fetchOk THEN TrackerIssues ELSE issues)
                        ELSE <<>>
       IN \E wts \in {listWorktrees'} :
            /\ footerError' = IF config.githubIssuesEnabled /\ ~fetchOk
                              THEN "GitHub: Failed to fetch issues"
                              ELSE NoError
            /\ issueItems' = setIssues(newIssues, wts)
            /\ worktreeItems' = setWorktrees(wts)

\* ------------------------------------------------------------------------
\* Dialogs and the log of service calls
\* ------------------------------------------------------------------------
NoDialog == [type |-> "none", title |-> "", message |-> <<>>, detail |-> <<>>]

EmptyRun ==
  [ kind |-> "none", passContext |-> FALSE, customBranchName |-> <<>>,
    worktreePath |-> <<>>, branchName |-> <<>>, tabTitle |-> <<>>,
    frame2Command |-> Undefined, setupIndex |-> 0,
    hasChanges |-> FALSE, merged |-> FALSE, mergedIntoDefault |-> FALSE,
    mergeFault |-> FALSE ]

Call(op, arg, result) == [op |-> op, arg |-> arg, result |-> result]

Log(op, arg, result) == calls' = Append(calls, Call(op, arg, result))

\* showMessageDialog({title: 'Error', type: 'error', message: err.message})
ShowError(message, detail) ==
  /\ dialog' = [type |-> "error", title |-> "Error", message |-> <<message>>,
                detail |-> detail]
  /\ pc' = "dialog"

ShowSuccess(title, message, detail) ==
  /\ dialog' = [type |-> "success", title |-> title, message |-> message,
                detail |-> detail]
  /\ pc' = "dialog"

\* a list entry as the screen sees it
NoItem == [type |-> "none", hasWorktree |-> FALSE, isLocked |-> FALSE]

\* a widget with its handlers: the item, workflow and dialog type they hold
Widget(w, it, kind, type) == [w |-> w, item |-> it, kind |-> kind, type |-> type]

IssueList == Widget("issueList", NoItem, "none", "none")
WorktreeList == Widget("worktreeList", NoItem, "none", "none")

\* a destroyed widget: none of its handlers runs again
Destroyed == Widget("none", NoItem, "none", "none")

\* parseWorktreeOutput: let current = {}; a field not set is undefined, and
\* an undefined flag reads as false
EmptyCurrent ==
  [path |-> Undefined, commit |-> Undefined, branch |-> Undefined,
   locked |-> FALSE, lockReason |-> Undefined, prunable |-> FALSE]

\* no call of parseWorktreeOutput
ParserIdle ==
  /\ output = <<>>
  /\ records = <<>>
  /\ lines = <<>>
  /\ lineIndex = 0
  /\ current = EmptyCurrent
  /\ parsed = <<>>
  /\ parserPc = "idle"

\* what a slug function has not returned yet
NoResult == [slug |-> <<>>, number |-> Null]

\* no call of a slug function
SlugIdle ==
  /\ slugCall = [todo |-> <<>>, done |-> <<>>]
  /\ slugText = <<>>
  /\ slugNumber = 0
  /\ slugBranch = <<>>
  /\ slugResult = NoResult


\* a function that has not returned
Pending == [kind |-> "pending"]

\* no call of a service function
ServiceIdle ==
  /\ svcCall = [fn |-> "none"]
  /\ svcWorld = <<>>
  /\ svcLocals = <<>>
  /\ svcPc = "idle"
  /\ svcTrace = <<>>
  /\ svcReturn = Pending

\* runApp after the initial load: the lists shown, splitList.focusIssues()
ScreenIdle ==
  /\ focused = IssueList
  /\ popupShown = FALSE
  /\ currentItem = NoItem
  /\ selectionCooldown = TRUE
  /\ inFlight = EmptyBag

Init ==
  /\ config \in Configs
  /\ defaultBranch \in {Main, Master}
  /\ worktrees \in InitialWorktrees
  /\ branches = Range(worktrees)
  /\ windows = EmptyBag
  /\ issueItems = <<>>
  /\ worktreeItems = <<>>
  /\ footerError = NoError
  /\ pc = "loading"
  /\ item = CreateCustomItem
  /\ run = EmptyRun
  /\ calls = <<>>
  /\ dialog = NoDialog
  /\ summons = 0
  /\ ScreenIdle
  /\ ParserIdle
  /\ SlugIdle
  /\ ServiceIdle

\* runApp: the initial refreshData, after which the lists are shown
InitialLoad ==
  /\ pc = "loading"
  /\ UNCHANGED << summons, other, config, defaultBranch, world, item, run, calls, dialog >>
  /\ \E listOk \in BOOLEAN, fetchOk \in BOOLEAN : refreshData(listOk, fetchOk)
  /\ pc' = "idle"

\* screen.key(['r']): refreshData
RefreshKey ==
  /\ pc = "idle"
  /\ UNCHANGED << summons, other, config, defaultBranch, world, pc, item, run, calls, dialog >>
  /\ \E listOk \in BOOLEAN, fetchOk \in BOOLEAN : refreshData(listOk, fetchOk)


\* ------------------------------------------------------------------------
\* Summon (runApp: handleAction and doSummon)
\* ------------------------------------------------------------------------
KnownTerminalTypes == {"iterm", "terminal"}

\* the osascript calls openWindow makes: ITermAdapter one for the whole
\* window, TerminalAppAdapter one per frame until one fails
AutomationCalls(terminalType, frames) ==
  IF terminalType = "iterm" THEN 1 ELSE Len(frames)

\* buildActions offers 'summon' on an item that is not create-custom only
\* when it has no worktree
CanSummon(it) == ~(it.hasWorktree /\ it.worktree # NoWorktree)

\* handleAction 'summon' on the "New Worktree" entry, with the name typed
StartSummonCustom ==
  /\ pc = "idle"
  /\ summons < MaxSummons
  /\ summons' = summons + 1
  /\ \E i \in DOMAIN worktreeItems, name \in CustomNames :
       /\ worktreeItems[i].type = "create-custom"
       /\ item' = worktreeItems[i]
       /\ run' = [EmptyRun EXCEPT !.kind = "summon", !.customBranchName = name]
  /\ pc' = "s_create"
  /\ calls' = <<>>
  /\ UNCHANGED << other, config, defaultBranch, world, ui, dialog >>

\* handleAction 'summon' / 'summon-with-context' on an issue
StartSummonIssue ==
  /\ pc = "idle"
  /\ summons < MaxSummons
  /\ summons' = summons + 1
  /\ \E i \in DOMAIN issueItems, passContext \in BOOLEAN :
       /\ CanSummon(issueItems[i])
       /\ item' = issueItems[i]
       /\ run' = [EmptyRun EXCEPT !.kind = "summon", !.passContext = passContext]
  /\ pc' = "s_create"
  /\ calls' = <<>>
  /\ UNCHANGED << other, config, defaultBranch, world, ui, dialog >>

\* git worktree add -b <branch> <path> <baseBranch>
WorktreeAddSucceeds(branchName, baseBranch, fault) ==
  /\ ~fault
  /\ baseBranch = defaultBranch
  /\ branchName \notin branches \cup {defaultBranch}

\* variant: the run goes on whether or not the worktree was created
SummonCreateUnchecked ==
  /\ pc = "s_create"
  /\ \E fault \in BOOLEAN :
       LET custom == item.type = "create-custom"
           b == IF custom THEN run.customBranchName
                ELSE createBranchName(item.issue.number, item.issue.title)
           ok == WorktreeAddSucceeds(b, DefaultBaseBranch, fault)
       IN /\ Log("git worktree add", b, ok)
          /\ branches' = IF ok THEN branches \cup {b} ELSE branches
          /\ worktrees' = IF ok THEN Append(worktrees, b) ELSE worktrees
          /\ run' = [run EXCEPT
               !.worktreePath = getWorktreePath(b),
               !.branchName = b,
               !.tabTitle = IF custom THEN getCustomTabTitle(b)
                            ELSE getTabTitle(item.issue.number, item.issue.title)]
          /\ pc' = IF custom THEN "s_setup" ELSE "s_assign"
  /\ UNCHANGED << summons, other, config, defaultBranch, windows, ui, item, dialog >>

\* doSummon: createCustomWorktree / createWorktree, and what follows at once
SummonCreate ==
  /\ pc = "s_create"
  /\ \E fault \in BOOLEAN :
       IF item.type = "create-custom" /\ run.customBranchName # <<>>
       THEN LET b == run.customBranchName
                ok == WorktreeAddSucceeds(b, DefaultBaseBranch, fault)
            IN /\ Log("git worktree add", b, ok)
               /\ IF ok
                  THEN /\ branches' = branches \cup {b}
                       /\ worktrees' = Append(worktrees, b)
                       /\ run' = [run EXCEPT !.worktreePath = getWorktreePath(b),
                                             !.branchName = b,
                                             !.tabTitle = getCustomTabTitle(b)]
                       /\ pc' = "s_setup"
                       /\ UNCHANGED dialog
                  ELSE /\ ShowError("git worktree add failed", b)
                       /\ UNCHANGED << branches, worktrees, run >>
       ELSE IF item.type = "issue" /\ item.issue # NoIssue
       THEN LET b == createBranchName(item.issue.number, item.issue.title)
                ok == WorktreeAddSucceeds(b, DefaultBaseBranch, fault)
            IN /\ Log("git worktree add", b, ok)
               /\ IF ok
                  THEN /\ branches' = branches \cup {b}
                       /\ worktrees' = Append(worktrees, b)
                       /\ run' = [run EXCEPT
                            !.worktreePath = getWorktreePath(b),
                            !.branchName = b,
                            !.tabTitle = getTabTitle(item.issue.number, item.issue.title),
                            !.frame2Command =
                               IF run.passContext
                               THEN buildIssuePrompt(config.defaultAICommand,
                                      item.issue.number, item.issue.title)
                               ELSE Undefined]
                       /\ pc' = "s_assign"
                       /\ UNCHANGED dialog
                  ELSE /\ ShowError("git worktree add failed", b)
                       /\ UNCHANGED << branches, worktrees, run >>
       ELSE /\ ShowError("Invalid item", <<>>)
            /\ UNCHANGED << branches, worktrees, run, calls >>
  /\ UNCHANGED << summons, other, config, defaultBranch, windows, ui, item >>

\* variant: the assignment's failure is not caught
SummonAssignUncaught ==
  /\ pc = "s_assign"
  /\ \E ok \in BOOLEAN :
       /\ Log("gh issue edit", NumToStr(item.issue.number), ok)
       /\ IF ok
          THEN pc' = "s_setup" /\ UNCHANGED dialog
          ELSE ShowError("gh issue edit failed", NumToStr(item.issue.number))
  /\ UNCHANGED << summons, other, config, defaultBranch, world, ui, item, run >>

\* doSummon: try { await assignIssueToSelf(...) } catch { }
SummonAssign ==
  /\ pc = "s_assign"
  /\ \E ok \in BOOLEAN :
       /\ Log("gh issue edit", NumToStr(item.issue.number), ok)
  /\ pc' = "s_setup"
  /\ UNCHANGED << summons, other, config, defaultBranch, world, ui, item, run, dialog >>

\* config.setupCommands && config.setupCommands.length > 0
HasSetupCommands(cfg) == cfg.setupCommands # NoCommands /\ Len(cfg.setupCommands) > 0

\* variant: a failing setup command does not stop the run
SummonSetupContinuing ==
  /\ pc = "s_setup"
  /\ IF ~HasSetupCommands(config)
     THEN /\ pc' = "s_open"
          /\ UNCHANGED << run, calls, dialog >>
     ELSE LET i == run.setupIndex + 1
              command == config.setupCommands[i]
          IN \E exitOk \in BOOLEAN :
               /\ Log("sh -c", command, exitOk)
               /\ run' = [run EXCEPT !.setupIndex = i]
               /\ pc' = IF i = Len(config.setupCommands) THEN "s_open" ELSE "s_setup"
               /\ UNCHANGED dialog
  /\ UNCHANGED << summons, other, config, defaultBranch, world, ui, item >>

\* doSummon: setupWorktree, one runCommand per step
SummonSetup ==
  /\ pc = "s_setup"
  /\ IF ~HasSetupCommands(config)
     THEN /\ pc' = "s_open"
          /\ UNCHANGED << run, calls, dialog >>
     ELSE LET i == run.setupIndex + 1
              command == config.setupCommands[i]
          IN \E exitOk \in BOOLEAN :
               /\ Log("sh -c", command, exitOk)
               /\ IF ~exitOk
                  THEN /\ ShowError("Command failed: ", command)
                       /\ UNCHANGED run
                  ELSE /\ run' = [run EXCEPT !.setupIndex = i]
                       /\ pc' = IF i = Len(config.setupCommands) THEN "s_open" ELSE "s_setup"
                       /\ UNCHANGED dialog
  /\ UNCHANGED << summons, other, config, defaultBranch, world, ui, item >>

\* openWindow, given how many of its osascript calls exited zero
openWindowResult(terminalType, frames, succeeded) ==
  succeeded = AutomationCalls(terminalType, frames)

\* doSummon: getTerminalAdapter, buildFrames, openWindow, the Success dialog
SummonOpen ==
  /\ pc = "s_open"
  /\ IF config.terminalType \notin KnownTerminalTypes
     THEN /\ ShowError("Unknown terminal type: ", <<>>)
          /\ UNCHANGED << windows, calls >>
     ELSE LET frames == buildFrames(run.worktreePath, config, run.frame2Command)
          IN /\ IF Len(frames) > 0
                THEN \E succeeded \in 0..AutomationCalls(config.terminalType, frames) :
                       /\ Log("openWindow", run.tabTitle,
                              openWindowResult(config.terminalType, frames, succeeded))
                       /\ windows' =
                            IF succeeded = 0 THEN windows
                            ELSE windows (+)
                              [w \in {[title |-> run.tabTitle, dir |-> run.worktreePath]}
                                 |-> succeeded]
                ELSE UNCHANGED << windows, calls >>
             /\ ShowSuccess("Success", <<"Created at ">>, run.worktreePath)
  /\ UNCHANGED << summons, other, config, defaultBranch, branches, worktrees, ui, item, run >>

\* the message dialog is closed: onClose
CloseDialog ==
  /\ pc = "dialog"
  /\ UNCHANGED << summons, other, config, defaultBranch, world >>
  /\ IF dialog.type = "success"
     THEN \E listOk \in BOOLEAN, fetchOk \in BOOLEAN : refreshData(listOk, fetchOk)
     ELSE UNCHANGED ui
  /\ pc' = "idle"
  /\ dialog' = NoDialog
  /\ item' = CreateCustomItem
  /\ run' = EmptyRun
  /\ calls' = <<>>

\* ------------------------------------------------------------------------
\* Banish (runApp: handleAction and doBanish)
\* ------------------------------------------------------------------------
\* buildActions offers 'banish' on an item that has a worktree
CanBanish(it) == it.type # "create-custom" /\ it.hasWorktree /\ it.worktree # NoWorktree

\* handleAction 'banish', confirmed
StartBanish ==
  /\ pc = "idle"
  /\ \E it \in Range(issueItems) \cup Range(worktreeItems) :
       /\ CanBanish(it)
       /\ item' = it
  /\ run' = [EmptyRun EXCEPT !.kind = "banish"]
  /\ pc' = "b_check"
  /\ calls' = <<>>
  /\ UNCHANGED << summons, other, config, defaultBranch, world, ui, dialog >>

\* variant: uncommitted changes stop the run
BanishCheckBlocking ==
  /\ pc = "b_check"
  /\ IF item.worktree = NoWorktree
     THEN /\ ShowError("No worktree to remove", <<>>)
          /\ UNCHANGED << run, calls >>
     ELSE \E hasChanges \in BOOLEAN :
            /\ Log("git status", item.worktree.path, hasChanges)
            /\ run' = [run EXCEPT !.hasChanges = hasChanges]
            /\ IF hasChanges
               THEN ShowError("Uncommitted changes", item.worktree.path)
               ELSE pc' = "b_close" /\ UNCHANGED dialog
  /\ UNCHANGED << summons, other, config, defaultBranch, world, ui, item >>

\* doBanish: hasUncommittedChanges
BanishCheck ==
  /\ pc = "b_check"
  /\ IF item.worktree = NoWorktree
     THEN /\ ShowError("No worktree to remove", <<>>)
          /\ UNCHANGED << run, calls >>
     ELSE \E hasChanges \in BOOLEAN :
            /\ Log("git status", item.worktree.path, hasChanges)
            /\ run' = [run EXCEPT !.hasChanges = hasChanges]
            /\ pc' = "b_close"
            /\ UNCHANGED dialog
  /\ UNCHANGED << summons, other, config, defaultBranch, world, ui, item >>

\* the title doBanish passes to closeByTitle
BanishTitle(it) ==
  IF it.type = "issue" /\ it.issue # NoIssue
  THEN getTabTitle(it.issue.number, it.issue.title)
  ELSE getCustomTabTitle(it.worktree.branch)

\* the tabs whose name contains the title
Matches(wins, title) == { w \in BagToSet(wins) : Contains(w.title, title) }

\* closeByTitle: exit code zero and the script returned true
closeByTitleResult(wins, title, exitOk) == exitOk /\ Matches(wins, title) # {}

\* doBanish: getTerminalAdapter and closeByTitle
BanishClose ==
  /\ pc = "b_close"
  /\ IF config.terminalType \notin KnownTerminalTypes
     THEN /\ ShowError("Unknown terminal type: ", <<>>)
          /\ UNCHANGED << windows, calls >>
     ELSE \E exitOk \in BOOLEAN :
            LET title == BanishTitle(item)
                closed == closeByTitleResult(windows, title, exitOk)
            IN /\ Log("closeByTitle", title, closed)
               /\ IF closed
                  THEN \E w \in Matches(windows, title) :
                         windows' = windows (-) SetToBag({w})
                  ELSE UNCHANGED windows
               /\ pc' = "b_remove"
               /\ UNCHANGED dialog
  /\ UNCHANGED << summons, other, config, defaultBranch, branches, worktrees, ui, item, run >>

RECURSIVE Without(_, _)
Without(seq, x) ==
  IF seq = <<>> THEN <<>>
  ELSE (IF Head(seq) = x THEN <<>> ELSE <<Head(seq)>>) \o Without(Tail(seq), x)

\* variant: a failed removal is not raised
BanishRemoveSwallowed ==
  /\ pc = "b_remove"
  /\ \E fault \in BOOLEAN :
       LET ok == ~fault /\ item.worktree.branch \in Range(worktrees)
       IN /\ Log("git worktree remove", item.worktree.path, ok)
          /\ worktrees' = IF ok THEN Without(worktrees, item.worktree.branch)
                          ELSE worktrees
          /\ pc' = "b_merge"
          /\ UNCHANGED dialog
  /\ UNCHANGED << summons, other, config, defaultBranch, branches, windows, ui, item, run >>

\* doBanish: removeWorktree (git worktree remove <path> --force)
BanishRemove ==
  /\ pc = "b_remove"
  /\ \E fault \in BOOLEAN :
       LET ok == ~fault /\ item.worktree.branch \in Range(worktrees)
       IN /\ Log("git worktree remove", item.worktree.path, ok)
          /\ IF ok
             THEN /\ worktrees' = Without(worktrees, item.worktree.branch)
                  /\ pc' = "b_merge"
                  /\ UNCHANGED dialog
             ELSE /\ ShowError("git worktree remove failed", item.worktree.path)
                  /\ UNCHANGED worktrees
  /\ UNCHANGED << summons, other, config, defaultBranch, branches, windows, ui, item, run >>

\* isBranchMerged: the branch exists, the listing of the branches merged into
\* baseBranch succeeds, and the branch is on the list
isBranchMerged(branchExists, listOk, listed) == branchExists /\ listOk /\ listed

\* git branch --merged <baseBranch> exits zero
MergedListingSucceeds(baseBranch, fault) == ~fault /\ baseBranch = defaultBranch

\* doBanish: isBranchMerged(worktree.branch), baseBranch left to its default
BanishMerge ==
  /\ pc = "b_merge"
  /\ \E fault1 \in BOOLEAN, fault2 \in BOOLEAN, mergedIntoDefault \in BOOLEAN :
       LET b == item.worktree.branch
           branchExists == ~fault1 /\ b \in branches
           listOk == MergedListingSucceeds(DefaultBaseBranch, fault2)
           result == isBranchMerged(branchExists, listOk, mergedIntoDefault)
       IN /\ calls' = calls
               \o <<Call("git rev-parse --verify", b, branchExists)>>
               \o (IF branchExists
                   THEN <<Call("git branch --merged", DefaultBaseBranch, listOk)>>
                   ELSE <<>>)
          /\ run' = [run EXCEPT !.merged = result,
                                !.mergedIntoDefault = mergedIntoDefault /\ b \in branches,
                                !.mergeFault = fault1 \/ (branchExists /\ fault2)]
  /\ pc' = "b_delete"
  /\ UNCHANGED << summons, other, config, defaultBranch, world, ui, item, dialog >>

\* variant: the branch is deleted whatever the merge check returned
BanishDeleteUnchecked ==
  /\ pc = "b_delete"
  /\ \E ok \in BOOLEAN :
       /\ Log("git branch -d", item.worktree.branch, ok)
       /\ branches' = IF ok THEN branches \ {item.worktree.branch} ELSE branches
       /\ ShowSuccess("Complete",
            <<"Worktree removed", IF ok THEN ", branch deleted" ELSE ", branch kept">>,
            <<>>)
  /\ UNCHANGED << summons, other, config, defaultBranch, worktrees, windows, ui, item, run >>

\* doBanish: deleteBranch when merged, and the Complete dialog
BanishDelete ==
  /\ pc = "b_delete"
  /\ IF run.merged
     THEN \E ok \in BOOLEAN :
            /\ ok => run.mergedIntoDefault
            /\ Log("git branch -d", item.worktree.branch, ok)
            /\ branches' = IF ok THEN branches \ {item.worktree.branch} ELSE branches
            /\ ShowSuccess("Complete",
                 <<"Worktree removed", IF ok THEN ", branch deleted" ELSE ", branch kept">>,
                 <<>>)
     ELSE /\ ShowSuccess("Complete", <<"Worktree removed", ", branch kept (unmerged)">>, <<>>)
          /\ UNCHANGED << branches, calls >>
  /\ UNCHANGED << summons, other, config, defaultBranch, worktrees, windows, ui, item, run >>

Next ==
  \/ InitialLoad
  \/ RefreshKey
  \/ StartSummonCustom
  \/ StartSummonIssue
  \/ SummonCreate
  \/ SummonAssign
  \/ SummonSetup
  \/ SummonOpen
  \/ StartBanish
  \/ BanishCheck
  \/ BanishClose
  \/ BanishRemove
  \/ BanishMerge
  \/ BanishDelete
  \/ CloseDialog

Spec == Init /\ [][Next]_vars

\* ------------------------------------------------------------------------
\* The screen (createSplitList, createDetailPopup, the dialogs, handleAction)
\*
\* Keys go to the widget on which focus() was called last, shown or hidden,
\* unless it was destroyed; the mouse goes to a shown list.  A workflow is
\* followed here from its start to its message dialog only; its steps are
\* the workflow actions above, which follow one workflow at a time.
\* ------------------------------------------------------------------------
MaxFlows == 2

\* the workflow variables, at rest
WorkflowIdle ==
  /\ config = DEFAULT_CONFIG
  /\ defaultBranch = Main
  /\ worktrees = <<>>
  /\ branches = {}
  /\ windows = EmptyBag
  /\ issueItems = <<>>
  /\ worktreeItems = <<>>
  /\ footerError = NoError
  /\ pc = "idle"
  /\ item = CreateCustomItem
  /\ run = EmptyRun
  /\ calls = <<>>
  /\ dialog = NoDialog
  /\ summons = 0

ScreenItem(type, hasWorktree, isLocked) ==
  [type |-> type, hasWorktree |-> hasWorktree, isLocked |-> isLocked]

\* the entries setIssues puts on the issue list
IssueEntries ==
  { ScreenItem("issue", FALSE, FALSE), ScreenItem("issue", TRUE, FALSE),
    ScreenItem("issue", TRUE, TRUE) }

\* the entries setWorktrees puts on the worktree list
WorktreeEntries ==
  { ScreenItem("create-custom", FALSE, FALSE),
    ScreenItem("custom-worktree", TRUE, FALSE),
    ScreenItem("custom-worktree", TRUE, TRUE) }

\* createDetailPopup: buildActions
buildActions(it) ==
  (IF it.type = "create-custom" THEN <<"summon">>
   ELSE IF it.hasWorktree
        THEN <<"banish">> \o (IF it.isLocked THEN <<"unlock">> ELSE <<"lock">>)
        ELSE IF it.type = "issue" THEN <<"summon-with-context", "summon">>
             ELSE <<"summon">>)
  \o <<"back">>

\* an event reaches a widget by the keyboard when the widget has the focus,
\* by the mouse when the widget is shown
Reaches(via, w, shown) ==
  \/ via = "key" /\ focused.w = w
  \/ via = "mouse" /\ shown

\* splitList.focusIssues / focusWorktrees
FocusList(list) ==
  /\ selectionCooldown' = TRUE
  /\ focused' = list

\* a workflow starts: showProgressDialog, then the first await
StartFlow(kind) ==
  /\ BagCardinality(inFlight) < MaxFlows
  /\ inFlight' = inFlight (+) SetToBag({kind})

ScreenInit ==
  /\ WorkflowIdle
  /\ ScreenIdle
  /\ ParserIdle
  /\ SlugIdle
  /\ ServiceIdle

\* focusIssues / focusWorktrees: setTimeout(() => selectionCooldown = false, 100)
CooldownExpires ==
  /\ selectionCooldown
  /\ selectionCooldown' = FALSE
  /\ UNCHANGED << offScreen, focused, popupShown, currentItem, inFlight >>

\* issueList / worktreeList on 'select': onSelect, detailPopup.show(item)
ListSelect ==
  /\ ~selectionCooldown
  /\ \E via \in {"key", "mouse"}, list \in {IssueList, WorktreeList} :
       /\ Reaches(via, list.w, TRUE)
       /\ \E it \in (IF list = IssueList THEN IssueEntries ELSE WorktreeEntries) :
            currentItem' = it
  /\ popupShown' = TRUE
  /\ focused' = Widget("actionList", NoItem, "none", "none")
  /\ UNCHANGED << offScreen, selectionCooldown, inFlight >>

\* actionList on 'select': back (as the escape key: hide, onClose), or
\* onAction = handleAction
ActionSelect ==
  /\ currentItem # NoItem
  /\ \E via \in {"key", "mouse"}, i \in DOMAIN buildActions(currentItem) :
       LET action == buildActions(currentItem)[i]
       IN /\ Reaches(via, "actionList", popupShown)
          /\ popupShown' = FALSE
          /\ IF action = "back"
             THEN FocusList(IssueList) /\ UNCHANGED inFlight
             ELSE IF action = "summon" /\ currentItem.type = "create-custom"
             THEN /\ focused' = Widget("input", currentItem, "summon", "none")
                  /\ UNCHANGED << selectionCooldown, inFlight >>
             ELSE IF action = "banish"
             THEN /\ focused' = Widget("btnList", currentItem, "banish", "none")
                  /\ UNCHANGED << selectionCooldown, inFlight >>
             ELSE /\ StartFlow(IF action = "summon-with-context" THEN "summon" ELSE action)
                  /\ UNCHANGED << focused, selectionCooldown >>
  /\ UNCHANGED << offScreen, currentItem >>

\* showTextInputDialog: input on 'submit' with a name typed; with none, as
\* the escape key, back to the worktree list
InputSubmit ==
  /\ focused.w = "input"
  /\ \E named \in BOOLEAN :
       IF named
       THEN /\ StartFlow("summon")
            /\ focused' = Destroyed
            /\ UNCHANGED selectionCooldown
       ELSE FocusList(WorktreeList) /\ UNCHANGED inFlight
  /\ UNCHANGED << offScreen, popupShown, currentItem >>

\* showConfirmDialog: Yes, then doBanish
ConfirmYes ==
  /\ focused.w = "btnList"
  /\ StartFlow("banish")
  /\ focused' = Destroyed
  /\ UNCHANGED << offScreen, popupShown, currentItem, selectionCooldown >>

\* showConfirmDialog: No
ConfirmNo ==
  /\ focused.w = "btnList"
  /\ FocusList(WorktreeList)
  /\ UNCHANGED << offScreen, popupShown, currentItem, inFlight >>

\* a workflow comes to its end: showMessageDialog, dialog.focus()
FlowFinish ==
  /\ \E kind \in BagToSet(inFlight), type \in {"success", "error"} :
       /\ inFlight' = inFlight (-) SetToBag({kind})
       /\ focused' = Widget("message", NoItem, kind, type)
  /\ UNCHANGED << offScreen, popupShown, currentItem, selectionCooldown >>

\* showMessageDialog: space, escape or q, then onClose
MessageClose ==
  /\ focused.w = "message"
  /\ IF focused.kind = "summon" /\ focused.type = "error"
     THEN FocusList(IssueList)
     ELSE FocusList(WorktreeList)
  /\ UNCHANGED << offScreen, popupShown, currentItem, inFlight >>

ScreenNext ==
  \/ CooldownExpires
  \/ ListSelect
  \/ ActionSelect
  \/ InputSubmit
  \/ ConfirmYes
  \/ ConfirmNo
  \/ FlowFinish
  \/ MessageClose

SpecScreen == ScreenInit /\ [][ScreenNext]_vars

\* ------------------------------------------------------------------------
\* services/git.ts: parseWorktreeOutput
\* ------------------------------------------------------------------------
Newline == "\n"

\* the characters String.prototype.trim takes off
WhiteSpace == {" ", "\t", Newline}

\* String.prototype.trim
trim(s) ==
  LET kept == { i \in DOMAIN s : s[i] \notin WhiteSpace }
  IN IF kept = {} THEN <<>>
     ELSE SubSeq(s, CHOOSE i \in kept : \A j \in kept : i <= j,
                    CHOOSE i \in kept : \A j \in kept : i >= j)

\* String.prototype.split('\n')
RECURSIVE split(_)
split(s) ==
  LET breaks == { i \in DOMAIN s : s[i] = Newline }
  IN IF breaks = {} THEN <<s>>
     ELSE LET first == CHOOSE i \in breaks : \A j \in breaks : i <= j
          IN <<SubSeq(s, 1, first - 1)>> \o split(SubSeq(s, first + 1, Len(s)))

\* String.prototype.substring(n)
substring(s, n) == SubSeq(s, n + 1, Len(s))

\* String.prototype.replace(pattern, by) with a string pattern: the first
\* occurrence only
replace(s, pattern, by) ==
  LET found == { i \in 0..(Len(s) - Len(pattern)) :
                   SubSeq(s, i + 1, i + Len(pattern)) = pattern }
  IN IF found = {} THEN s
     ELSE LET at == CHOOSE i \in found : \A j \in found : i <= j
          IN SubSeq(s, 1, at) \o by \o SubSeq(s, at + Len(pattern) + 1, Len(s))

WorktreeKey == <<"w","o","r","k","t","r","e","e"," ">>
HeadKey == <<"H","E","A","D"," ">>
BranchKey == <<"b","r","a","n","c","h"," ">>
RefsHeads == <<"r","e","f","s","/","h","e","a","d","s","/">>
DetachedLine == <<"d","e","t","a","c","h","e","d">>
LockedLine == <<"l","o","c","k","e","d">>
LockedKey == <<"l","o","c","k","e","d"," ">>
PrunableLine == <<"p","r","u","n","a","b","l","e">>
PrunableKey == <<"p","r","u","n","a","b","l","e"," ">>

\* lockReason: null
NullString == <<"null">>

\* the if / else-if chain of the loop body, but for its last branch
setField(cur, line) ==
  IF StartsWith(line, WorktreeKey)
  THEN [cur EXCEPT !.path = substring(line, 9)]
  ELSE IF StartsWith(line, HeadKey)
  THEN [cur EXCEPT !.commit = substring(line, 5)]
  ELSE IF StartsWith(line, BranchKey)
  THEN [cur EXCEPT !.branch = replace(substring(line, 7), RefsHeads, <<>>)]
  ELSE IF line = DetachedLine
  THEN [cur EXCEPT !.branch = DetachedLine]
  ELSE IF line = LockedLine
  THEN [cur EXCEPT !.locked = TRUE]
  ELSE IF StartsWith(line, LockedKey)
  THEN [cur EXCEPT !.locked = TRUE, !.lockReason = substring(line, 7)]
  ELSE IF line = PrunableLine
  THEN [cur EXCEPT !.prunable = TRUE]
  ELSE IF StartsWith(line, PrunableKey)
  THEN [cur EXCEPT !.prunable = TRUE]
  ELSE cur

\* a string that is neither undefined nor empty
Truthy(s) == s # Undefined /\ s # <<>>

\* current.path && current.branch
hasPathAndBranch(cur) == Truthy(cur.path) /\ Truthy(cur.branch)

\* variant: only 'main' is the main branch
isMainOnly(branch) == branch = Main

\* current.branch === 'main' || current.branch === 'master'
isMain(branch) == branch = Main \/ branch = Master

\* the object handed to worktrees.push
pushed(cur) ==
  [ path |-> cur.path,
    branch |-> cur.branch,
    commit |-> IF Truthy(cur.commit) THEN cur.commit ELSE <<>>,
    isMain |-> isMain(cur.branch),
    issueNumber |-> IF isMain(cur.branch) THEN Null
                    ELSE extractIssueNumber(cur.branch),
    isLocked |-> cur.locked,
    lockReason |-> IF Truthy(cur.lockReason) THEN cur.lockReason ELSE NullString,
    isPrunable |-> cur.prunable ]

\* the state of the loop: let current and const worktrees
ParseState(cur, wts) == [current |-> cur, worktrees |-> wts]

\* variant: a record that lacks a path or a branch is pushed all the same
pushAlways(st) ==
  ParseState(st.current, Append(st.worktrees, pushed(st.current)))

\* if (current.path && current.branch) { worktrees.push(...) }
pushIfComplete(st) ==
  IF hasPathAndBranch(st.current)
  THEN ParseState(st.current, Append(st.worktrees, pushed(st.current)))
  ELSE st

\* variant: the lock of a record stays set for the next one
resetButLock(cur) ==
  [EmptyCurrent EXCEPT !.locked = cur.locked, !.lockReason = cur.lockReason]

\* current = {}
reset(cur) == EmptyCurrent

\* one turn of the for loop
loopBody(st, line) ==
  IF line # <<>>
  THEN ParseState(setField(st.current, line), st.worktrees)
  ELSE ParseState(reset(st.current), pushIfComplete(st).worktrees)

\* variant: nothing is done after the loop
lastEntryLost(st) == st

\* "Handle last entry if no trailing newline"
lastEntry(st) == pushIfComplete(st)

RECURSIVE forLoop(_, _)
forLoop(st, ls) ==
  IF ls = <<>> THEN st
  ELSE forLoop(loopBody(st, Head(ls)), Tail(ls))

parseWorktreeOutput(out) ==
  lastEntry(forLoop(ParseState(EmptyCurrent, <<>>), split(trim(out)))).worktrees

\* the lines git worktree list --porcelain writes, and a line it does not
LineWorktreeA == <<"w","o","r","k","t","r","e","e"," ","/","a">>
LineWorktreeB == <<"w","o","r","k","t","r","e","e"," ","/","b">>
LineHead == <<"H","E","A","D"," ","a","b","c">>
LineBranchMain == <<"b","r","a","n","c","h"," ","r","e","f","s","/","h","e","a","d","s","/","m","a","i","n">>
LineBranchMaster == <<"b","r","a","n","c","h"," ","r","e","f","s","/","h","e","a","d","s","/","m","a","s","t","e","r">>
LineBranchIssue == <<"b","r","a","n","c","h"," ","r","e","f","s","/","h","e","a","d","s","/","i","s","s","u","e","-","7","-","x">>
LineBranchFeat == <<"b","r","a","n","c","h"," ","r","e","f","s","/","h","e","a","d","s","/","f","e","a","t">>
LineLockedReason == <<"l","o","c","k","e","d"," ","w","i","p">>
LinePrunableReason == <<"p","r","u","n","a","b","l","e"," ","g","o","n","e">>
LineBare == <<"b","a","r","e">>

\* the records an output is written from: whole ones, one without a branch,
\* one without a path, one whose fields come before its worktree line, and
\* the empty one, which is a second blank line
RecordMain == << LineWorktreeA, LineHead, LineBranchMain >>
RecordMaster == << LineWorktreeA, LineBranchMaster, PrunableLine >>
RecordIssue == << LineWorktreeB, LineHead, LineBranchIssue, LineLockedReason >>
RecordDetached == << LineWorktreeB, LineHead, DetachedLine, LockedLine, LinePrunableReason >>
RecordFeat == << LineWorktreeA, LineBranchFeat >>
RecordBare == << LineWorktreeA, LineHead, LineBare >>
RecordNoPath == << LineHead, LineBranchFeat, LockedLine >>
RecordFieldsFirst == << LineBranchIssue, LineLockedReason, LineWorktreeB >>
RecordEmpty == << >>

Records ==
  { RecordMain, RecordMaster, RecordIssue, RecordDetached, RecordFeat,
    RecordBare, RecordNoPath, RecordFieldsFirst, RecordEmpty }

\* bound: the records of one output
MaxRecords == 3

\* the ends an output can have: none, a newline, a blank line
Endings == { <<>>, <<Newline>>, <<Newline, Newline>> }

\* the lines of a record, each but the last followed by a newline
RECURSIVE joinLines(_)
joinLines(ls) ==
  IF ls = <<>> THEN <<>>
  ELSE IF Len(ls) = 1 THEN ls[1]
  ELSE ls[1] \o <<Newline>> \o joinLines(Tail(ls))

\* the records with a blank line between one and the next
RECURSIVE joinRecords(_)
joinRecords(rs) ==
  IF rs = <<>> THEN <<>>
  ELSE IF Len(rs) = 1 THEN joinLines(rs[1])
  ELSE joinLines(rs[1]) \o <<Newline, Newline>> \o joinRecords(Tail(rs))

ParserInit ==
  /\ WorkflowIdle
  /\ ScreenIdle
  /\ SlugIdle
  /\ ServiceIdle
  /\ records \in UNION { [1..n -> Records] : n \in 0..MaxRecords }
  /\ output \in { joinRecords(records) \o e : e \in Endings }
  /\ lines = <<>>
  /\ lineIndex = 0
  /\ current = EmptyCurrent
  /\ parsed = <<>>
  /\ parserPc = "called"

\* const lines = output.trim().split('\n')
ParseSplit ==
  /\ parserPc = "called"
  /\ lines' = split(trim(output))
  /\ parserPc' = "loop"
  /\ UNCHANGED << offParser, output, records, lineIndex, current, parsed >>

\* for (const line of lines) { ... }
ParseLine ==
  /\ parserPc = "loop"
  /\ lineIndex < Len(lines)
  /\ LET st == loopBody(ParseState(current, parsed), lines[lineIndex + 1])
     IN /\ current' = st.current
        /\ parsed' = st.worktrees
  /\ lineIndex' = lineIndex + 1
  /\ UNCHANGED << offParser, output, records, lines, parserPc >>

\* the loop is over: the last entry, and return worktrees
ParseReturn ==
  /\ parserPc = "loop"
  /\ lineIndex = Len(lines)
  /\ LET st == lastEntry(ParseState(current, parsed))
     IN /\ current' = st.current
        /\ parsed' = st.worktrees
  /\ parserPc' = "returned"
  /\ UNCHANGED << offParser, output, records, lines, lineIndex >>

ParserNext ==
  \/ ParseSplit
  \/ ParseLine
  \/ ParseReturn

SpecParser == ParserInit /\ [][ParserNext]_vars

\* ------------------------------------------------------------------------
\* utils/slug.ts: the calls of slugify, createBranchName, extractIssueNumber
\* ------------------------------------------------------------------------
\* bound: the characters of a text that follow its padding
MaxText == 3

\* bound: the issue numbers
MaxIssueNumber == 12

\* a letter, a capital, a digit, a space and a hyphen
TextChars == {"a", "B", "7", " ", "-"}

\* the strings of at most n characters
StringsUpTo(chars, n) == UNION { [1..k -> chars] : k \in 0..n }

\* n times the letter a
Padding(n) == [i \in 1..n |-> "a"]

\* the texts handed to slugify: short ones, and ones that are as long as
\* the longest slug, or longer
SlugTexts ==
  { Padding(n) \o t : n \in 0..(SLUG_MAX_LENGTH + 1), t \in StringsUpTo(TextChars, MaxText) }

\* the titles of issues
SlugTitles == StringsUpTo(TextChars, MaxText)

\* how a branch name may begin
BranchStarts ==
  { <<>>, IssuePrefix, <<"I","s","s","u","e","-">>, <<"i","s","s","u","e">>, <<" ","i","s","s","u","e","-">>, <<"x","i","s","s","u","e","-">>,
    <<Newline>> \o IssuePrefix }

BranchChars == {"0", "7", "a", "-"}

\* the branch names handed to extractIssueNumber
SlugBranches ==
  { b \o t : b \in BranchStarts, t \in StringsUpTo(BranchChars, MaxText) }

\* the calls to make and the calls made
SlugCalls(todo, done) == [todo |-> todo, done |-> done]

SlugInit ==
  /\ WorkflowIdle
  /\ ScreenIdle
  /\ ParserIdle
  /\ ServiceIdle
  /\ slugResult = NoResult
  /\ \/ /\ slugCall = SlugCalls(<<"slugify">>, <<>>)
        /\ slugText \in SlugTexts
        /\ slugNumber = 0
        /\ slugBranch = <<>>
     \/ /\ slugCall = SlugCalls(<<"createBranchName", "extractIssueNumber">>, <<>>)
        /\ slugText \in SlugTitles
        /\ slugNumber \in 0..MaxIssueNumber
        /\ slugBranch = <<>>
     \/ /\ slugCall = SlugCalls(<<"extractIssueNumber">>, <<>>)
        /\ slugText = <<>>
        /\ slugNumber = 0
        /\ slugBranch \in SlugBranches

\* the first call to make is made
Returned(fn) ==
  /\ slugCall.todo # <<>>
  /\ Head(slugCall.todo) = fn
  /\ slugCall' = SlugCalls(Tail(slugCall.todo), Append(slugCall.done, fn))

\* slugify(text)
Slugify ==
  /\ Returned("slugify")
  /\ slugResult' = [slugResult EXCEPT !.slug = slugify(slugText)]
  /\ UNCHANGED << offSlug, slugText, slugNumber, slugBranch >>

\* createBranchName(issueNumber, title)
CreateBranchName ==
  /\ Returned("createBranchName")
  /\ slugBranch' = createBranchName(slugNumber, slugText)
  /\ UNCHANGED << offSlug, slugText, slugNumber, slugResult >>

\* extractIssueNumber(branchName)
ExtractIssueNumber ==
  /\ Returned("extractIssueNumber")
  /\ slugResult' = [slugResult EXCEPT !.number = extractIssueNumber(slugBranch)]
  /\ UNCHANGED << offSlug, slugText, slugNumber, slugBranch >>

SlugNext ==
  \/ Slugify
  \/ CreateBranchName
  \/ ExtractIssueNumber

SpecSlug == SlugInit /\ [][SlugNext]_vars

\* ------------------------------------------------------------------------
\* utils/exec.ts: exec, execOrThrow
\* ------------------------------------------------------------------------
DEFAULT_TIMEOUT_MS == 30000

\* args.join(' ')
RECURSIVE join(_)
join(args) ==
  IF args = <<>> THEN <<>>
  ELSE IF Len(args) = 1 THEN args[1]
  ELSE args[1] \o <<" ">> \o join(Tail(args))

\* a ?? b, for strings
OrElse(a, b) == IF a = Undefined THEN b ELSE a

ExecResult(stdout, stderr, exitCode) ==
  [stdout |-> stdout, stderr |-> stderr, exitCode |-> exitCode]

\* variant: the caller's timeout is not read
timeoutDefaultOnly(options) == DEFAULT_TIMEOUT_MS

\* const { cwd, timeout = DEFAULT_TIMEOUT_MS } = options
timeoutOf(options) ==
  IF options.timeout = Null THEN DEFAULT_TIMEOUT_MS ELSE options.timeout

\* exec, given how the promise of execa settled
exec(command, args, options, settled) ==
  IF settled.how = "resolved"
  THEN IF settled.timedOut
       THEN ExecResult(<<>>,
                       <<"C","o","m","m","a","n","d"," ","t","i","m","e","d"," ","o","u","t"," ","a","f","t","e","r"," ">> \o NumToStr(timeoutOf(options))
                         \o <<"m","s",":"," ">> \o command \o <<" ">> \o join(args),
                       124)
       ELSE ExecResult(settled.stdout, settled.stderr,
                       IF settled.exitCode = Null THEN 0 ELSE settled.exitCode)
  ELSE ExecResult(OrElse(settled.stdout, <<>>),
                  OrElse(settled.stderr, settled.message),
                  IF settled.exitCode = Null THEN 1 ELSE settled.exitCode)

Returns(value) == [kind |-> "returned", value |-> value]
Throws(message) == [kind |-> "thrown", message |-> message]

\* execOrThrow, given the result of exec
execOrThrow(command, args, result) ==
  IF result.exitCode # 0
  THEN Throws(IF result.stderr # <<>> THEN result.stderr
              ELSE <<"C","o","m","m","a","n","d"," ","f","a","i","l","e","d",":"," ">> \o command \o <<" ">> \o join(args))
  ELSE Returns(result.stdout)

\* bound: the exit codes of a process that exits
MaxExitCode == 2

TextOut == <<"o","u","t">>
TextErr == <<"e","r","r">>
TextSpawn == <<"s","p","a","w","n"," ","g","i","t"," ","E","N","O","E","N","T">>

\* how the promise of execa settles, and what the process did.  With
\* reject: false the promise resolves for a process that exits, that is
\* killed at the timeout, or that cannot be started: exitCode is then
\* undefined.  It rejects when spawn itself throws.
Settled(how, did, stdout, stderr, exitCode, timedOut, message) ==
  [how |-> how, did |-> did, stdout |-> stdout, stderr |-> stderr,
   exitCode |-> exitCode, timedOut |-> timedOut, message |-> message]

ExecaSettles ==
  { Settled("resolved", "exited", so, se, c, FALSE, <<>>) :
      so \in {<<>>, TextOut}, se \in {<<>>, TextErr}, c \in 0..MaxExitCode }
  \cup
  { Settled("resolved", "timedOut", so, <<>>, c, TRUE, <<>>) :
      so \in {<<>>, TextOut}, c \in {Null, 0} }
  \cup
  { Settled("resolved", "notStarted", <<>>, <<>>, Null, FALSE, TextSpawn) }
  \cup
  { Settled("rejected", "notStarted", Undefined, se, c, FALSE, TextSpawn) :
      se \in {Undefined, TextErr}, c \in {Null, 127} }

Git == <<"g","i","t">>
Which == <<"w","h","i","c","h">>
ArgsStatus == << <<"s","t","a","t","u","s">> >>
ArgsLock == << <<"w","o","r","k","t","r","e","e">>, <<"l","o","c","k">>, <<"/","a">> >>

ExecCalls ==
  { [fn |-> fn, command |-> Git, args |-> a, options |-> [timeout |-> t]] :
      fn \in {"exec", "execOrThrow"}, a \in {<<>>, ArgsStatus, ArgsLock},
      t \in {Null, 5000} }

ExecInit ==
  /\ WorkflowIdle
  /\ ScreenIdle
  /\ ParserIdle
  /\ SlugIdle
  /\ svcCall \in ExecCalls
  /\ svcWorld \in ExecaSettles
  /\ svcLocals = <<>>
  /\ svcPc = "execa"
  /\ svcTrace = <<>>
  /\ svcReturn = Pending

\* await execa(command, args, {cwd, reject: false, timeout}), and the rest
\* of exec
ExecaSettled ==
  /\ svcPc = "execa"
  /\ svcCall.fn \in {"exec", "execOrThrow"}
  /\ svcTrace' = Append(svcTrace, [command |-> svcCall.command, args |-> svcCall.args,
                                   timeout |-> timeoutOf(svcCall.options)])
  /\ svcLocals' = exec(svcCall.command, svcCall.args, svcCall.options, svcWorld)
  /\ svcPc' = svcCall.fn
  /\ UNCHANGED << offService, svcCall, svcWorld, svcReturn >>

\* exec returns its result
ExecReturns ==
  /\ svcPc = "exec"
  /\ svcReturn' = Returns(svcLocals)
  /\ svcPc' = "done"
  /\ UNCHANGED << offService, svcCall, svcWorld, svcLocals, svcTrace >>

\* execOrThrow returns stdout or throws
ExecOrThrowEnds ==
  /\ svcPc = "execOrThrow"
  /\ svcReturn' = execOrThrow(svcCall.command, svcCall.args, svcLocals)
  /\ svcPc' = "done"
  /\ UNCHANGED << offService, svcCall, svcWorld, svcLocals, svcTrace >>

ExecNext ==
  \/ ExecaSettled
  \/ ExecReturns
  \/ ExecOrThrowEnds

SpecExec == ExecInit /\ [][ExecNext]_vars

\* ------------------------------------------------------------------------
\* utils/exec.ts: checkDependency, checkDependencies
\* ------------------------------------------------------------------------
\* bound: the commands of one call
MaxDeps == 3

DepNames == {"git", "gh", "claude"}

\* checkDependency: result.exitCode === 0, of which <command>
checkDependency(command, installed) == command \in installed

\* a probe that has not settled
Unsettled == [command |-> "", available |-> FALSE, settled |-> FALSE]

\* variant: the results are kept in the order the probes settle
settleInArrivalOrder(results, i, command, available) ==
  LET at == CHOOSE j \in DOMAIN results :
              ~results[j].settled /\ \A k \in DOMAIN results : k < j => results[k].settled
  IN [results EXCEPT ![at] = [command |-> command, available |-> available, settled |-> TRUE]]

\* Promise.all: the value of the i-th promise is the i-th result
settle(results, i, command, available) ==
  [results EXCEPT ![i] = [command |-> command, available |-> available, settled |-> TRUE]]

\* results.filter(...).map((r) => r.command)
RECURSIVE commandsWhere(_, _)
commandsWhere(results, available) ==
  IF results = <<>> THEN <<>>
  ELSE IF Head(results).available = available
  THEN <<Head(results).command>> \o commandsWhere(Tail(results), available)
  ELSE commandsWhere(Tail(results), available)

DepsInit ==
  /\ WorkflowIdle
  /\ ScreenIdle
  /\ ParserIdle
  /\ SlugIdle
  /\ svcCall \in { [fn |-> "checkDependencies", commands |-> c] :
                     c \in UNION { [1..n -> DepNames] : n \in 0..MaxDeps } }
  /\ svcWorld \in SUBSET DepNames
  /\ svcLocals = <<>>
  /\ svcPc = "map"
  /\ svcTrace = <<>>
  /\ svcReturn = Pending

\* commands.map(async (cmd) => ...): every probe is started, in order
DepsMap ==
  /\ svcPc = "map"
  /\ svcCall.fn = "checkDependencies"
  /\ svcTrace' = [i \in DOMAIN svcCall.commands |-> <<"which", svcCall.commands[i]>>]
  /\ svcLocals' = [pending |-> DOMAIN svcCall.commands,
                   results |-> [i \in DOMAIN svcCall.commands |-> Unsettled]]
  /\ svcPc' = "all"
  /\ UNCHANGED << offService, svcCall, svcWorld, svcReturn >>

\* one of the probes settles
DepsProbeSettles ==
  /\ svcPc = "all"
  /\ \E i \in svcLocals.pending :
       svcLocals' = [pending |-> svcLocals.pending \ {i},
                     results |-> settle(svcLocals.results, i, svcCall.commands[i],
                                        checkDependency(svcCall.commands[i], svcWorld))]
  /\ UNCHANGED << offService, svcCall, svcWorld, svcPc, svcTrace, svcReturn >>

\* await Promise.all(...) is over: return { missing, available }
DepsReturn ==
  /\ svcPc = "all"
  /\ svcLocals.pending = {}
  /\ svcReturn' = Returns([missing |-> commandsWhere(svcLocals.results, FALSE),
                           available |-> commandsWhere(svcLocals.results, TRUE)])
  /\ svcPc' = "done"
  /\ UNCHANGED << offService, svcCall, svcWorld, svcLocals, svcTrace >>

DepsNext ==
  \/ DepsMap
  \/ DepsProbeSettles
  \/ DepsReturn

SpecDeps == DepsInit /\ [][DepsNext]_vars

\* ------------------------------------------------------------------------
\* services/setup.ts: setupWorktree, runCommand
\* ------------------------------------------------------------------------
\* bound: the setup commands of a configuration
MaxCommands == 3

WorktreePath == <<"/","a">>

\* the exec call of runCommand
shellCall(worktreePath, command) ==
  [event |-> "exec", command |-> <<"s","h">>, args |-> << <<"-","c">>, command >>, cwd |-> worktreePath]

\* variant: a command that fails does not stop the run
runCommandLenient(command, result) == Returns(<<>>)

\* runCommand, given the result of exec
runCommand(command, result) ==
  IF result.exitCode # 0
  THEN Throws(<<"C","o","m","m","a","n","d"," ","f","a","i","l","e","d",":"," ">> \o command \o <<Newline>> \o result.stderr)
  ELSE Returns(<<>>)

\* variant: current is the index of the loop
progressFromZero(command, i, total) ==
  [event |-> "progress", step |-> command, current |-> i, total |-> total]

\* onProgress?.({ step: command, current, total }), i the index of the loop
progress(command, i, total) ==
  [event |-> "progress", step |-> command, current |-> i + 1, total |-> total]

\* the results exec may give for a setup command
ShellResults ==
  { ExecResult(<<>>, <<>>, 0), ExecResult(<<>>, <<>>, 1), ExecResult(<<>>, TextErr, 1),
    ExecResult(TextOut, TextErr, 124) }

SetupInit ==
  /\ WorkflowIdle
  /\ ScreenIdle
  /\ ParserIdle
  /\ SlugIdle
  /\ \E n \in 0..MaxCommands :
       /\ svcCall \in { [fn |-> "setupWorktree", worktreePath |-> WorktreePath,
                         setupCommands |-> c, onProgress |-> p] :
                          c \in [1..n -> {CmdInstall, CmdBuild}] \cup {NoCommands},
                          p \in BOOLEAN }
       /\ svcWorld \in [1..n -> ShellResults]
  /\ svcLocals = [i |-> 0]
  /\ svcPc = "called"
  /\ svcTrace = <<>>
  /\ svcReturn = Pending

\* if (!setupCommands || setupCommands.length === 0) return; or the loop
\* is entered
SetupCalled ==
  /\ svcPc = "called"
  /\ svcCall.fn = "setupWorktree"
  /\ IF svcCall.setupCommands = NoCommands \/ Len(svcCall.setupCommands) = 0
     THEN svcPc' = "done" /\ svcReturn' = Returns(<<>>)
     ELSE svcPc' = "loop" /\ UNCHANGED svcReturn
  /\ UNCHANGED << offService, svcCall, svcWorld, svcLocals, svcTrace >>

\* the loop body up to the await: onProgress, and runCommand calls exec
SetupStartsCommand ==
  /\ svcPc = "loop"
  /\ svcLocals.i < Len(svcCall.setupCommands)
  /\ LET command == svcCall.setupCommands[svcLocals.i + 1]
     IN svcTrace' = svcTrace
          \o (IF svcCall.onProgress
              THEN << progress(command, svcLocals.i, Len(svcCall.setupCommands)) >>
              ELSE <<>>)
          \o << shellCall(svcCall.worktreePath, command) >>
  /\ svcPc' = "runCommand"
  /\ UNCHANGED << offService, svcCall, svcWorld, svcLocals, svcReturn >>

\* exec has returned: runCommand throws, or the loop goes on
SetupCommandEnds ==
  /\ svcPc = "runCommand"
  /\ svcTrace' = Append(svcTrace, [event |-> "exit"])
  /\ LET ended == runCommand(svcCall.setupCommands[svcLocals.i + 1],
                             svcWorld[svcLocals.i + 1])
     IN IF ended.kind = "thrown"
        THEN svcReturn' = ended /\ svcPc' = "done" /\ UNCHANGED svcLocals
        ELSE svcLocals' = [i |-> svcLocals.i + 1] /\ svcPc' = "loop" /\ UNCHANGED svcReturn
  /\ UNCHANGED << offService, svcCall, svcWorld >>

\* i < setupCommands.length is false: setupWorktree returns
SetupReturns ==
  /\ svcPc = "loop"
  /\ svcLocals.i = Len(svcCall.setupCommands)
  /\ svcReturn' = Returns(<<>>)
  /\ svcPc' = "done"
  /\ UNCHANGED << offService, svcCall, svcWorld, svcLocals, svcTrace >>

SetupNext ==
  \/ SetupCalled
  \/ SetupStartsCommand
  \/ SetupCommandEnds
  \/ SetupReturns

SpecSetup == SetupInit /\ [][SetupNext]_vars

\* ------------------------------------------------------------------------
\* services/git.ts: isBranchMerged, getDefaultBranch, cleanGitError
\* ------------------------------------------------------------------------
\* bound: the lines git branch --merged writes
MaxMergedLines == 2

Issue7 == <<"i","s","s","u","e","-","7","-","x">>

\* the lines git branch --merged can write for the branches at hand: two
\* spaces before a branch, '* ' before the current one, '+ ' before one
\* checked out in another worktree
MergedLines ==
  { <<" "," ","m","a","i","n">>, <<"*"," ","m","a","i","n">>, <<" "," ","f","e","a","t">>, <<"*"," ","f","e","a","t">>, <<"+"," ","f","e","a","t">>, <<" "," ","f","e","a","t","u","r","e">>, <<" "," ","i","s","s","u","e","-","7","-","x">> }

\* variant: the lines are taken as they are
mergedBranchesAsWritten(stdout) == split(stdout)

\* result.stdout.split('\n').map((b) => b.trim().replace('* ', ''))
mergedBranches(stdout) ==
  LET ls == split(stdout)
  IN <<>> \o [i \in DOMAIN ls |-> replace(trim(ls[i]), <<"*"," ">>, <<>>)]

\* Array.prototype.includes
includes(list, x) == \E i \in DOMAIN list : list[i] = x

FatalPrefix == <<"f","a","t","a","l",":">>

\* variant: the pattern has no i flag
stripFatalAsWritten(message) ==
  IF StartsWith(message, FatalPrefix)
  THEN LET rest == substring(message, Len(FatalPrefix))
           kept == { i \in DOMAIN rest : rest[i] \notin WhiteSpace }
       IN IF kept = {} THEN <<>>
          ELSE SubSeq(rest, CHOOSE i \in kept : \A j \in kept : i <= j, Len(rest))
  ELSE message

\* message.replace(/^fatal:\s*/i, '')
stripFatal(message) ==
  IF toLowerCase(Slice0(message, Len(FatalPrefix))) = FatalPrefix
  THEN LET rest == substring(message, Len(FatalPrefix))
           kept == { i \in DOMAIN rest : rest[i] \notin WhiteSpace }
       IN IF kept = {} THEN <<>>
          ELSE SubSeq(rest, CHOOSE i \in kept : \A j \in kept : i <= j, Len(rest))
  ELSE message

AlreadyLocked == <<"i","s"," ","a","l","r","e","a","d","y"," ","l","o","c","k","e","d">>
NotLocked == <<"i","s"," ","n","o","t"," ","l","o","c","k","e","d">>

cleanGitError(message) ==
  LET cleaned == trim(stripFatal(message))
  IN IF Contains(cleaned, AlreadyLocked) THEN <<"W","o","r","k","t","r","e","e"," ","i","s"," ","a","l","r","e","a","d","y"," ","l","o","c","k","e","d">>
     ELSE IF Contains(cleaned, NotLocked) THEN <<"W","o","r","k","t","r","e","e"," ","i","s"," ","n","o","t"," ","l","o","c","k","e","d">>
     ELSE cleaned

\* the messages git and execOrThrow give
GitMessages ==
  { head \o body \o tail :
      head \in { <<>>, <<"f","a","t","a","l",":"," ">>, <<"f","a","t","a","l",":">>, <<"F","A","T","A","L",":"," ">>, <<"F","a","t","a","l",":"," "," ">>, <<" ","f","a","t","a","l",":"," ">>, <<" "," ">> },
      body \in { <<>>, <<"b","o","o","m">>, <<"'","/","a","'"," ","i","s"," ","a","l","r","e","a","d","y"," ","l","o","c","k","e","d">>, <<"'","/","a","'"," ","i","s"," ","n","o","t"," ","l","o","c","k","e","d">>,
                 <<"i","s"," ","n","o","t"," ","l","o","c","k","e","d",","," ","i","s"," ","a","l","r","e","a","d","y"," ","l","o","c","k","e","d">>, <<"C","o","m","m","a","n","d"," ","f","a","i","l","e","d",":"," ","g","i","t"," ","w","o","r","k","t","r","e","e"," ","l","o","c","k"," ","/","a">> },
      tail \in { <<>>, <<" ">>, <<Newline>> } }

\* getRepoRoot: the cached root, the root git names, or a throw
RepoRootCases == {"cached", "found", "fails"}

GitInit ==
  /\ WorkflowIdle
  /\ ScreenIdle
  /\ ParserIdle
  /\ SlugIdle
  /\ \/ /\ svcCall \in { [fn |-> "isBranchMerged", branchName |-> b, baseBranch |-> Main] :
                           b \in {Feat, Issue7} }
        /\ svcWorld \in
             { [root |-> r, verify |-> v, merged |-> ExecResult(joinLines(ls) \o e, <<>>, c)] :
                 r \in RepoRootCases, v \in {0, 1}, c \in {0, 1},
                 ls \in UNION { [1..n -> MergedLines] : n \in 0..MaxMergedLines },
                 e \in { <<>>, <<Newline>> } }
        /\ svcPc = "getRepoRoot"
     \/ /\ svcCall = [fn |-> "getDefaultBranch"]
        /\ svcWorld \in
             { [root |-> r, symbolicRef |-> ExecResult(so, <<>>, c), main |-> m, master |-> ms] :
                 r \in RepoRootCases, c \in {0, 1}, m \in {0, 1}, ms \in {0, 1},
                 so \in { <<>>, <<"r","e","f","s","/","r","e","m","o","t","e","s","/","o","r","i","g","i","n","/","m","a","i","n">> \o <<Newline>>,
                          <<"r","e","f","s","/","r","e","m","o","t","e","s","/","o","r","i","g","i","n","/","d","e","v","e","l","o","p">> \o <<Newline>> } }
        /\ svcPc = "getRepoRoot"
     \/ /\ svcCall \in { [fn |-> "cleanGitError", message |-> m] : m \in GitMessages }
        /\ svcWorld = <<>>
        /\ svcPc = "cleanGitError"
  /\ svcLocals = <<>>
  /\ svcTrace = <<>>
  /\ svcReturn = Pending

\* const repoRoot = await getRepoRoot()
GitRepoRoot ==
  /\ svcPc = "getRepoRoot"
  /\ svcCall.fn \in {"isBranchMerged", "getDefaultBranch"}
  /\ svcTrace' = IF svcWorld.root = "cached" THEN svcTrace
                 ELSE Append(svcTrace, <<"r","e","v","-","p","a","r","s","e"," ","-","-","s","h","o","w","-","t","o","p","l","e","v","e","l">>)
  /\ IF svcWorld.root = "fails"
     THEN /\ svcReturn' = Throws(<<"f","a","t","a","l",":"," ","n","o","t"," ","a"," ","g","i","t"," ","r","e","p","o","s","i","t","o","r","y">>)
          /\ svcPc' = "done"
     ELSE /\ svcPc' = IF svcCall.fn = "isBranchMerged" THEN "branchCheck" ELSE "symbolicRef"
          /\ UNCHANGED svcReturn
  /\ UNCHANGED << offService, svcCall, svcWorld, svcLocals >>

\* isBranchMerged: git rev-parse --verify <branchName>
GitBranchCheck ==
  /\ svcPc = "branchCheck"
  /\ svcTrace' = Append(svcTrace, <<"r","e","v","-","p","a","r","s","e"," ","-","-","v","e","r","i","f","y"," ">> \o svcCall.branchName)
  /\ IF svcWorld.verify # 0
     THEN svcReturn' = Returns(FALSE) /\ svcPc' = "done"
     ELSE svcPc' = "merged" /\ UNCHANGED svcReturn
  /\ UNCHANGED << offService, svcCall, svcWorld, svcLocals >>

\* isBranchMerged: git branch --merged <baseBranch>, and the return
GitBranchMerged ==
  /\ svcPc = "merged"
  /\ svcTrace' = Append(svcTrace, <<"b","r","a","n","c","h"," ","-","-","m","e","r","g","e","d"," ">> \o svcCall.baseBranch)
  /\ svcReturn' = IF svcWorld.merged.exitCode # 0 THEN Returns(FALSE)
                  ELSE Returns(includes(mergedBranches(svcWorld.merged.stdout),
                                        svcCall.branchName))
  /\ svcPc' = "done"
  /\ UNCHANGED << offService, svcCall, svcWorld, svcLocals >>

\* getDefaultBranch: git symbolic-ref refs/remotes/origin/HEAD
GitSymbolicRef ==
  /\ svcPc = "symbolicRef"
  /\ svcTrace' = Append(svcTrace, <<"s","y","m","b","o","l","i","c","-","r","e","f"," ","r","e","f","s","/","r","e","m","o","t","e","s","/","o","r","i","g","i","n","/","H","E","A","D">>)
  /\ IF svcWorld.symbolicRef.exitCode = 0
     THEN /\ svcReturn' = Returns(replace(trim(svcWorld.symbolicRef.stdout),
                                          <<"r","e","f","s","/","r","e","m","o","t","e","s","/","o","r","i","g","i","n","/">>, <<>>))
          /\ svcPc' = "done"
     ELSE svcPc' = "mainCheck" /\ UNCHANGED svcReturn
  /\ UNCHANGED << offService, svcCall, svcWorld, svcLocals >>

\* getDefaultBranch: git rev-parse --verify main
GitMainCheck ==
  /\ svcPc = "mainCheck"
  /\ svcTrace' = Append(svcTrace, <<"r","e","v","-","p","a","r","s","e"," ","-","-","v","e","r","i","f","y"," ","m","a","i","n">>)
  /\ IF svcWorld.main = 0
     THEN svcReturn' = Returns(Main) /\ svcPc' = "done"
     ELSE svcPc' = "masterCheck" /\ UNCHANGED svcReturn
  /\ UNCHANGED << offService, svcCall, svcWorld, svcLocals >>

\* getDefaultBranch: git rev-parse --verify master, and the last resort
GitMasterCheck ==
  /\ svcPc = "masterCheck"
  /\ svcTrace' = Append(svcTrace, <<"r","e","v","-","p","a","r","s","e"," ","-","-","v","e","r","i","f","y"," ","m","a","s","t","e","r">>)
  /\ svcReturn' = IF svcWorld.master = 0 THEN Returns(Master) ELSE Returns(Main)
  /\ svcPc' = "done"
  /\ UNCHANGED << offService, svcCall, svcWorld, svcLocals >>

\* cleanGitError(message)
GitErrorCleaned ==
  /\ svcPc = "cleanGitError"
  /\ svcReturn' = Returns(cleanGitError(svcCall.message))
  /\ svcPc' = "done"
  /\ UNCHANGED << offService, svcCall, svcWorld, svcLocals, svcTrace >>

GitNext ==
  \/ GitRepoRoot
  \/ GitBranchCheck
  \/ GitBranchMerged
  \/ GitSymbolicRef
  \/ GitMainCheck
  \/ GitMasterCheck
  \/ GitErrorCleaned

SpecGit == GitInit /\ [][GitNext]_vars

\* ------------------------------------------------------------------------
\* services/git.ts: lockWorktree, unlockWorktree; index.tsx: doLock, doUnlock
\* ------------------------------------------------------------------------

\* const args = ['worktree', 'lock', worktreePath]; if (reason) args.push(...)
lockArgs(worktreePath, reason) ==
  << <<"w","o","r","k","t","r","e","e">>, <<"l","o","c","k">>, worktreePath >>
    \o (IF Truthy(reason) THEN << <<"-","-","r","e","a","s","o","n">>, reason >> ELSE << >>)

\* ['worktree', 'unlock', worktreePath]
unlockArgs(worktreePath) == << <<"w","o","r","k","t","r","e","e">>, <<"u","n","l","o","c","k">>, worktreePath >>

\* variant: the message of execOrThrow is thrown as it is
rethrowAsThrown(message) == Throws(message)

\* throw new Error(cleanGitError(err.message))
rethrow(message) == Throws(cleanGitError(message))

\* the service function behind a call, and its arguments to git
IsLockCall(call) == call.fn \in {"lockWorktree", "doLock"}

argsOf(call) ==
  IF IsLockCall(call) THEN lockArgs(call.worktreePath, call.reason)
  ELSE unlockArgs(call.worktreePath)

\* what git writes when it refuses
LockRefusals(call, locked) ==
  { <<"f","a","t","a","l",":"," ","'","/","a","'"," ","i","s"," ","n","o","t"," ","a"," ","w","o","r","k","i","n","g"," ","t","r","e","e">> \o <<Newline>>, <<"F","A","T","A","L",":"," ","b","o","o","m"," ">>, <<>> }
  \cup (IF IsLockCall(call) /\ locked
        THEN { <<"f","a","t","a","l",":"," ","'","/","a","'"," ","i","s"," ","a","l","r","e","a","d","y"," ","l","o","c","k","e","d">> \o <<Newline>>,
               <<"f","a","t","a","l",":"," ","'","/","a","'"," ","i","s"," ","a","l","r","e","a","d","y"," ","l","o","c","k","e","d",","," ","r","e","a","s","o","n",":"," ","w","i","p">> \o <<Newline>> }
        ELSE {})
  \cup (IF ~IsLockCall(call) /\ ~locked
        THEN { <<"f","a","t","a","l",":"," ","'","/","a","'"," ","i","s"," ","n","o","t"," ","l","o","c","k","e","d">> \o <<Newline>> }
        ELSE {})

\* how the promise of execa settles for git worktree lock / unlock: git does
\* it when the worktree is in the other state, refuses with one of its
\* messages, is killed at the timeout, or is not started
LockSettles(call, locked) ==
  (IF IsLockCall(call) = ~locked
   THEN { Settled("resolved", "exited", <<>>, <<>>, 0, FALSE, <<>>) }
   ELSE {})
  \cup
  { Settled("resolved", "exited", <<>>, se, c, FALSE, <<>>) :
      se \in LockRefusals(call, locked), c \in 1..MaxExitCode }
  \cup
  { Settled("resolved", "timedOut", <<>>, <<>>, Null, TRUE, <<>>),
    Settled("resolved", "notStarted", <<>>, <<>>, Null, FALSE, TextSpawn),
    Settled("rejected", "notStarted", Undefined, Undefined, Null, FALSE, TextSpawn) }

LockCalls ==
  { [fn |-> "lockWorktree", worktreePath |-> WorktreePath, reason |-> r, hasWorktree |-> TRUE] :
      r \in {Undefined, <<>>, <<"w","i","p">>} }
  \cup
  { [fn |-> "unlockWorktree", worktreePath |-> WorktreePath, reason |-> Undefined, hasWorktree |-> TRUE] }
  \cup
  { [fn |-> f, worktreePath |-> WorktreePath, reason |-> Undefined, hasWorktree |-> h] :
      f \in {"doLock", "doUnlock"}, h \in BOOLEAN }

NoMessageDialog == [type |-> "none", title |-> <<>>, message |-> <<>>]

\* svcWorld.locked is the state git holds, svcLocals.isLocked the one the
\* list shows; svcReturn is what lockWorktree / unlockWorktree gave
LockInit ==
  /\ WorkflowIdle
  /\ ScreenIdle
  /\ ParserIdle
  /\ SlugIdle
  /\ svcCall \in LockCalls
  /\ \E root \in RepoRootCases, locked \in BOOLEAN :
       \E settled \in LockSettles(svcCall, locked) :
         svcWorld = [root |-> root, locked |-> locked, settled |-> settled]
  /\ \E shown \in BOOLEAN :
       svcLocals = [isLocked |-> shown, dialog |-> NoMessageDialog]
  /\ svcPc = "called"
  /\ svcTrace = <<>>
  /\ svcReturn = Pending

\* doLock / doUnlock: if (!item.worktree) return
LockCalled ==
  /\ svcPc = "called"
  /\ svcPc' = IF svcCall.hasWorktree THEN "getRepoRoot" ELSE "done"
  /\ UNCHANGED << offService, svcCall, svcWorld, svcLocals, svcTrace, svcReturn >>

\* where a call goes once its service function has returned or thrown
afterService(call, result) ==
  IF call.fn \in {"lockWorktree", "unlockWorktree"} THEN "done"
  ELSE IF result.kind = "returned" THEN "try" ELSE "catch"

\* const repoRoot = await getRepoRoot(), before the try
LockRepoRoot ==
  /\ svcPc = "getRepoRoot"
  /\ svcCall \in LockCalls
  /\ svcTrace' = IF svcWorld.root = "cached" THEN svcTrace
                 ELSE Append(svcTrace, <<"r","e","v","-","p","a","r","s","e"," ","-","-","s","h","o","w","-","t","o","p","l","e","v","e","l">>)
  /\ IF svcWorld.root = "fails"
     THEN /\ svcReturn' = Throws(<<"f","a","t","a","l",":"," ","n","o","t"," ","a"," ","g","i","t"," ","r","e","p","o","s","i","t","o","r","y">>)
          /\ svcPc' = afterService(svcCall, svcReturn')
     ELSE /\ svcPc' = "execOrThrow"
          /\ UNCHANGED svcReturn
  /\ UNCHANGED << offService, svcCall, svcWorld, svcLocals >>

\* try { await execOrThrow('git', args, { cwd: repoRoot }) } catch (err) {...}
LockExecOrThrow ==
  /\ svcPc = "execOrThrow"
  /\ svcTrace' = Append(svcTrace, join(argsOf(svcCall)))
  /\ LET result == exec(Git, argsOf(svcCall), [timeout |-> Null], svcWorld.settled)
         ended == execOrThrow(Git, argsOf(svcCall), result)
     IN svcReturn' = IF ended.kind = "thrown" THEN rethrow(ended.message)
                     ELSE Returns(Undefined)
  /\ svcWorld' = IF svcWorld.settled.did = "exited" /\ svcWorld.settled.exitCode = 0
                 THEN [svcWorld EXCEPT !.locked = IsLockCall(svcCall)]
                 ELSE svcWorld
  /\ svcPc' = afterService(svcCall, svcReturn')
  /\ UNCHANGED << offService, svcCall, svcLocals >>

\* showMessageDialog({ title: 'Locked' | 'Unlocked', type: 'success', ... })
LockSuccessDialog ==
  /\ svcPc = "try"
  /\ svcLocals' = [svcLocals EXCEPT !.dialog =
       IF svcCall.fn = "doLock"
       THEN [type |-> "success", title |-> <<"L","o","c","k","e","d">>, message |-> <<"W","o","r","k","t","r","e","e"," ","h","a","s"," ","b","e","e","n"," ","l","o","c","k","e","d">>]
       ELSE [type |-> "success", title |-> <<"U","n","l","o","c","k","e","d">>, message |-> <<"W","o","r","k","t","r","e","e"," ","h","a","s"," ","b","e","e","n"," ","u","n","l","o","c","k","e","d">>]]
  /\ svcTrace' = Append(svcTrace, <<"s","h","o","w","M","e","s","s","a","g","e","D","i","a","l","o","g">>)
  /\ svcPc' = "dialog"
  /\ UNCHANGED << offService, svcCall, svcWorld, svcReturn >>

\* showMessageDialog({ title: 'Error', message: err.message, type: 'error' })
LockErrorDialog ==
  /\ svcPc = "catch"
  /\ svcLocals' = [svcLocals EXCEPT !.dialog =
       [type |-> "error", title |-> <<"E","r","r","o","r">>, message |-> svcReturn.message]]
  /\ svcTrace' = Append(svcTrace, <<"s","h","o","w","M","e","s","s","a","g","e","D","i","a","l","o","g">>)
  /\ svcPc' = "dialog"
  /\ UNCHANGED << offService, svcCall, svcWorld, svcReturn >>

\* onClose: after a success refreshData reads the worktrees again; after an
\* error the list is only focused and drawn
LockDialogClosed ==
  /\ svcPc = "dialog"
  /\ svcLocals' = [svcLocals EXCEPT
       !.isLocked = IF svcLocals.dialog.type = "success" THEN svcWorld.locked ELSE @]
  /\ svcTrace' = IF svcLocals.dialog.type = "success"
                 THEN Append(svcTrace, <<"r","e","f","r","e","s","h","D","a","t","a">>) ELSE svcTrace
  /\ svcPc' = "done"
  /\ UNCHANGED << offService, svcCall, svcWorld, svcReturn >>

LockNext ==
  \/ LockCalled
  \/ LockRepoRoot
  \/ LockExecOrThrow
  \/ LockSuccessDialog
  \/ LockErrorDialog
  \/ LockDialogClosed

SpecLock == LockInit /\ [][LockNext]_vars

\* ------------------------------------------------------------------------
\* services/terminal: ITermAdapter (iterm.ts), TerminalAppAdapter
\* (terminal-app.ts)
\* ------------------------------------------------------------------------

\* str.replace(/c/g, to) for one character c
RECURSIVE replaceAllChar(_, _, _)
replaceAllChar(str, c, to) ==
  IF Len(str) = 0 THEN <<>>
  ELSE IF Len(str) = 1 THEN (IF str[1] = c THEN to ELSE str)
  ELSE replaceAllChar(SubSeq(str, 1, Len(str) \div 2), c, to)
       \o replaceAllChar(SubSeq(str, (Len(str) \div 2) + 1, Len(str)), c, to)

\* ITermAdapter.escapeForAppleScript:
\* str.replace(/\\/g, '\\\\').replace(/"/g, '\\"')
escapeForAppleScript(str) ==
  replaceAllChar(replaceAllChar(str, "\\", <<"\\","\\">>), "\"", <<"\\","\"">>)

\* TerminalAppAdapter.escapeForAppleScript: the same, then newlines, carriage
\* returns and tabs
escapeForAppleScriptFull(str) ==
  replaceAllChar(replaceAllChar(replaceAllChar(escapeForAppleScript(str),
    Newline, <<"\\","n">>), "\r", <<"\\","r">>), "\t", <<"\\","t">>)

\* str.replace(/'/g, "'\\''")
escapeForShell(str) == replaceAllChar(str, "'", <<"'","\\","'","'">>)

\* frame.command ? ... : ...
HasCommand(frame) == Truthy(frame.command)

\* ITermAdapter.buildSinglePaneScript, line by line
buildSinglePaneScript(escapedTitle, frame) ==
  LET escapedDir == escapeForShell(frame.directory)
      escapedCommand == IF HasCommand(frame) THEN escapeForAppleScript(frame.command) ELSE <<>>
  IN << <<"t","e","l","l"," ","a","p","p","l","i","c","a","t","i","o","n"," ","\"","i","T","e","r","m","\"">>,
        <<"a","c","t","i","v","a","t","e">>,
        <<"t","e","l","l"," ","c","u","r","r","e","n","t"," ","w","i","n","d","o","w">>,
        <<"c","r","e","a","t","e"," ","t","a","b"," ","w","i","t","h"," ","d","e","f","a","u","l","t"," ","p","r","o","f","i","l","e">>,
        <<"t","e","l","l"," ","c","u","r","r","e","n","t"," ","s","e","s","s","i","o","n">>,
        <<"s","e","t"," ","n","a","m","e"," ","t","o"," ","\"">> \o escapedTitle \o <<"\"">>,
        <<"w","r","i","t","e"," ","t","e","x","t"," ","\"","c","d"," ","'">> \o escapedDir \o <<"'","\"">>,
        IF escapedCommand # <<>> THEN <<"w","r","i","t","e"," ","t","e","x","t"," ","\"">> \o escapedCommand \o <<"\"">> ELSE <<>>,
        <<"e","n","d"," ","t","e","l","l">>,
        <<"e","n","d"," ","t","e","l","l">>,
        <<"e","n","d"," ","t","e","l","l">> >>

\* ITermAdapter.buildSplitPaneScript, line by line
buildSplitPaneScript(escapedTitle, frame1, frame2) ==
  LET escapedDir1 == escapeForShell(frame1.directory)
      escapedDir2 == escapeForShell(frame2.directory)
      escapedCommand1 == IF HasCommand(frame1) THEN escapeForAppleScript(frame1.command) ELSE <<>>
      escapedCommand2 == IF HasCommand(frame2) THEN escapeForAppleScript(frame2.command) ELSE <<>>
  IN << <<"t","e","l","l"," ","a","p","p","l","i","c","a","t","i","o","n"," ","\"","i","T","e","r","m","\"">>,
        <<"a","c","t","i","v","a","t","e">>,
        <<"t","e","l","l"," ","c","u","r","r","e","n","t"," ","w","i","n","d","o","w">>,
        <<"c","r","e","a","t","e"," ","t","a","b"," ","w","i","t","h"," ","d","e","f","a","u","l","t"," ","p","r","o","f","i","l","e">>,
        <<"t","e","l","l"," ","c","u","r","r","e","n","t"," ","s","e","s","s","i","o","n">>,
        <<"s","e","t"," ","n","a","m","e"," ","t","o"," ","\"">> \o escapedTitle \o <<"\"">>,
        <<"w","r","i","t","e"," ","t","e","x","t"," ","\"","c","d"," ","'">> \o escapedDir1 \o <<"'","\"">>,
        IF escapedCommand1 # <<>> THEN <<"w","r","i","t","e"," ","t","e","x","t"," ","\"">> \o escapedCommand1 \o <<"\"">> ELSE <<>>,
        <<>>,
        <<"s","e","t"," ","s","e","c","o","n","d","S","e","s","s","i","o","n"," ","t","o"," ","(","s","p","l","i","t"," ","h","o","r","i","z","o","n","t","a","l","l","y"," ","w","i","t","h"," ","d","e","f","a","u","l","t"," ","p","r","o","f","i","l","e",")">>,
        <<"t","e","l","l"," ","s","e","c","o","n","d","S","e","s","s","i","o","n">>,
        <<"w","r","i","t","e"," ","t","e","x","t"," ","\"","c","d"," ","'">> \o escapedDir2 \o <<"'","\"">>,
        IF escapedCommand2 # <<>> THEN <<"w","r","i","t","e"," ","t","e","x","t"," ","\"">> \o escapedCommand2 \o <<"\"">> ELSE <<>>,
        <<"e","n","d"," ","t","e","l","l">>,
        <<"e","n","d"," ","t","e","l","l">>,
        <<"e","n","d"," ","t","e","l","l">>,
        <<"e","n","d"," ","t","e","l","l">> >>

\* ITermAdapter.openWindow: the script for one frame or for the first two
itermScript(windowTitle, frames) ==
  IF Len(frames) = 1
  THEN buildSinglePaneScript(escapeForAppleScript(windowTitle), frames[1])
  ELSE buildSplitPaneScript(escapeForAppleScript(windowTitle), frames[1], frames[2])

\* TerminalAppAdapter.openTab: let commandStr
commandStr(directory, command) ==
  <<"c","d"," ","'">> \o replaceAllChar(directory, "'", <<"'","\\","'","'">>) \o <<"'">>
    \o (IF Truthy(command)
        THEN <<" ","&","&"," ">> \o replaceAllChar(command, "'", <<"'","\\","'","'">>)
        ELSE <<>>)

\* TerminalAppAdapter.openTab: const script
openTabScript(directory, command, title) ==
  << <<"t","e","l","l"," ","a","p","p","l","i","c","a","t","i","o","n"," ","\"","T","e","r","m","i","n","a","l","\"">>,
     <<"a","c","t","i","v","a","t","e">>,
     <<"d","o"," ","s","c","r","i","p","t"," ","\"">> \o escapeForAppleScriptFull(commandStr(directory, command)) \o <<"\"">>,
     <<"s","e","t"," ","c","u","s","t","o","m"," ","t","i","t","l","e"," ","o","f"," ","f","r","o","n","t"," ","w","i","n","d","o","w"," ","t","o"," ","\"">> \o escapeForAppleScriptFull(title) \o <<"\"">>,
     <<"e","n","d"," ","t","e","l","l">> >>

\* closeByTitle of the two adapters: const script
closeScript(adapter, title) ==
  IF adapter = "iterm"
  THEN << <<"t","e","l","l"," ","a","p","p","l","i","c","a","t","i","o","n"," ","\"","i","T","e","r","m","\"">>,
          <<"r","e","p","e","a","t"," ","w","i","t","h"," ","w"," ","i","n"," ","w","i","n","d","o","w","s">>,
          <<"r","e","p","e","a","t"," ","w","i","t","h"," ","t"," ","i","n"," ","t","a","b","s"," ","o","f"," ","w">>,
          <<"t","r","y">>,
          <<"i","f"," ","n","a","m","e"," ","o","f"," ","c","u","r","r","e","n","t"," ","s","e","s","s","i","o","n"," ","o","f"," ","t"," ","c","o","n","t","a","i","n","s"," ","\"">> \o escapeForAppleScript(title) \o <<"\""," ","t","h","e","n">>,
          <<"c","l","o","s","e"," ","t">>,
          <<"r","e","t","u","r","n"," ","t","r","u","e">>,
          <<"e","n","d"," ","i","f">>,
          <<"e","n","d"," ","t","r","y">>,
          <<"e","n","d"," ","r","e","p","e","a","t">>,
          <<"e","n","d"," ","r","e","p","e","a","t">>,
          <<"r","e","t","u","r","n"," ","f","a","l","s","e">>,
          <<"e","n","d"," ","t","e","l","l">> >>
  ELSE << <<"t","e","l","l"," ","a","p","p","l","i","c","a","t","i","o","n"," ","\"","T","e","r","m","i","n","a","l","\"">>,
          <<"r","e","p","e","a","t"," ","w","i","t","h"," ","w"," ","i","n"," ","w","i","n","d","o","w","s">>,
          <<"i","f"," ","n","a","m","e"," ","o","f"," ","w"," ","c","o","n","t","a","i","n","s"," ","\"">> \o escapeForAppleScriptFull(title) \o <<"\""," ","t","h","e","n">>,
          <<"c","l","o","s","e"," ","w">>,
          <<"r","e","t","u","r","n"," ","t","r","u","e">>,
          <<"e","n","d"," ","i","f">>,
          <<"e","n","d"," ","r","e","p","e","a","t">>,
          <<"r","e","t","u","r","n"," ","f","a","l","s","e">>,
          <<"e","n","d"," ","t","e","l","l">> >>

\* exec('osascript', ['-e', script]), given how the promise of execa settled
osascript(script, settled) ==
  exec(<<"o","s","a","s","c","r","i","p","t">>, << <<"-","e">>, joinLines(script) >>, [timeout |-> Null], settled)

\* variant: the text osascript wrote is not read
closedAsExited(result) == result.exitCode = 0

\* result.exitCode === 0 && result.stdout.trim() === 'true'
closed(result) == result.exitCode = 0 /\ trim(result.stdout) = <<"t","r","u","e">>

\* bound: the length of a title, directory or command made of the
\* characters the escapes are about
MaxScriptText == 2

\* bound: the frames handed to openWindow
MaxFrames == 2

\* a letter, a double quote, a backslash and a single quote
ScriptChars == {"a", "\"", "\\", "'"}

ScriptTexts == StringsUpTo(ScriptChars, MaxScriptText)

PlainTitle == <<"#","1",":"," ","a">>
PlainDirectory == <<"/","a">>
PlainCommand == <<"l","s">>

\* the frames: the first carries the command at hand, the others a plain one
FramesOf(n, directory, command) ==
  [i \in 1..n |-> [directory |-> directory,
                   command |-> IF i = 1 THEN command ELSE PlainCommand]]

\* how an osascript call can end, and the promise of execa for each
OsaOutcomes == {"ok", "error", "timedOut", "notStarted", "rejected"}

osaSettled(outcome, stdout) ==
  CASE outcome = "ok" -> Settled("resolved", "exited", stdout, <<>>, 0, FALSE, <<>>)
    [] outcome = "error" -> Settled("resolved", "exited", <<>>, TextErr, 1, FALSE, <<>>)
    [] outcome = "timedOut" -> Settled("resolved", "timedOut", <<>>, <<>>, Null, TRUE, <<>>)
    [] outcome = "notStarted" -> Settled("resolved", "notStarted", <<>>, <<>>, Null, FALSE, TextSpawn)
    [] outcome = "rejected" -> Settled("rejected", "notStarted", Undefined, Undefined, Null, FALSE, TextSpawn)

\* the names of the tabs and windows that are open, in the order the script
\* walks them
OpenTitles == { <<"#","1",":"," ","a">>, <<"#","1","2",":"," ","a">>, <<"#","1",":"," ","a","\"">> }

OpenWindows ==
  { <<>> } \cup { <<t>> : t \in OpenTitles }
           \cup { <<t, u>> : t \in OpenTitles, u \in OpenTitles }

OpenWindowCalls ==
  { [fn |-> "openWindow", adapter |-> a, windowTitle |-> t,
     frames |-> FramesOf(n, d, c)] :
      a \in KnownTerminalTypes, n \in 0..MaxFrames,
      t \in {PlainTitle}, d \in {PlainDirectory}, c \in {Undefined} \cup ScriptTexts }
  \cup
  { [fn |-> "openWindow", adapter |-> a, windowTitle |-> t,
     frames |-> FramesOf(n, d, c)] :
      a \in KnownTerminalTypes, n \in 0..MaxFrames,
      t \in {PlainTitle}, d \in ScriptTexts, c \in {PlainCommand} }
  \cup
  { [fn |-> "openWindow", adapter |-> a, windowTitle |-> t,
     frames |-> FramesOf(n, d, c)] :
      a \in KnownTerminalTypes, n \in 0..MaxFrames,
      t \in ScriptTexts, d \in {PlainDirectory}, c \in {PlainCommand} }

CloseByTitleCalls ==
  { [fn |-> "closeByTitle", adapter |-> a, title |-> t] :
      a \in KnownTerminalTypes, t \in OpenTitles \cup ScriptTexts }

TerminalInit ==
  /\ WorkflowIdle
  /\ ScreenIdle
  /\ ParserIdle
  /\ SlugIdle
  /\ \/ /\ svcCall \in OpenWindowCalls
        /\ \E outcomes \in [1..MaxFrames -> OsaOutcomes] :
             svcWorld = [outcomes |-> outcomes, windows |-> <<>>]
     \/ /\ svcCall \in CloseByTitleCalls
        /\ \E outcome \in OsaOutcomes, open \in OpenWindows :
             svcWorld = [outcomes |-> <<outcome>>, windows |-> open]
  /\ svcLocals = [frame |-> 0]
  /\ svcPc = "called"
  /\ svcTrace = <<>>
  /\ svcReturn = Pending

\* the osascript calls made so far
Scripts(trace) == SelectSeq(trace, LAMBDA e : e.event = "osascript")

Osascript(script) == [event |-> "osascript", script |-> script]
ConsoleError(text) == [event |-> "console.error", script |-> text]

\* the promise of execa for the next osascript call
nextSettled == osaSettled(svcWorld.outcomes[Len(Scripts(svcTrace)) + 1], <<>>)

\* openWindow of both adapters: if (frames.length === 0) return true
TermOpenWindow ==
  /\ svcPc = "called"
  /\ svcCall.fn = "openWindow"
  /\ IF Len(svcCall.frames) = 0
     THEN /\ svcReturn' = Returns(TRUE)
          /\ svcPc' = "done"
          /\ UNCHANGED svcLocals
     ELSE /\ svcPc' = IF svcCall.adapter = "iterm" THEN "osascript" ELSE "openTab"
          /\ svcLocals' = [svcLocals EXCEPT !.frame = 1]
          /\ UNCHANGED svcReturn
  /\ UNCHANGED << offService, svcCall, svcWorld, svcTrace >>

\* ITermAdapter.openWindow: the script, exec, console.error and the return
TermITermRuns ==
  /\ svcPc = "osascript"
  /\ LET script == itermScript(svcCall.windowTitle, svcCall.frames)
         result == osascript(script, nextSettled)
     IN /\ svcTrace' = svcTrace \o <<Osascript(script)>>
             \o (IF result.exitCode # 0 THEN <<ConsoleError(result.stderr)>> ELSE <<>>)
        /\ svcReturn' = Returns(result.exitCode = 0)
  /\ svcPc' = "done"
  /\ UNCHANGED << offService, svcCall, svcWorld, svcLocals >>

\* TerminalAppAdapter.openWindow: one turn of the for loop, with openTab
TermOpenTab ==
  /\ svcPc = "openTab"
  /\ LET frame == svcCall.frames[svcLocals.frame]
         script == openTabScript(frame.directory, frame.command, svcCall.windowTitle)
         result == osascript(script, nextSettled)
     IN /\ svcTrace' = Append(svcTrace, Osascript(script))
        /\ IF result.exitCode # 0
           THEN /\ svcReturn' = Returns(FALSE)
                /\ svcPc' = "done"
                /\ UNCHANGED svcLocals
           ELSE IF svcLocals.frame = Len(svcCall.frames)
           THEN /\ svcReturn' = Returns(TRUE)
                /\ svcPc' = "done"
                /\ UNCHANGED svcLocals
           ELSE /\ svcLocals' = [svcLocals EXCEPT !.frame = @ + 1]
                /\ UNCHANGED << svcReturn, svcPc >>
  /\ UNCHANGED << offService, svcCall, svcWorld >>

\* the first tab or window whose name contains the title, or 0
firstMatch(open, title) ==
  LET hits == { i \in DOMAIN open : Contains(open[i], title) }
  IN IF hits = {} THEN 0 ELSE CHOOSE i \in hits : \A j \in hits : i <= j

removeAt(open, i) ==
  SubSeq(open, 1, i - 1) \o SubSeq(open, i + 1, Len(open))

\* closeByTitle of both adapters; when the script runs it closes the first
\* match and writes true, or writes false
TermCloseByTitle ==
  /\ svcPc = "called"
  /\ svcCall.fn = "closeByTitle"
  /\ LET script == closeScript(svcCall.adapter, svcCall.title)
         outcome == svcWorld.outcomes[1]
         hit == firstMatch(svcWorld.windows, svcCall.title)
         stdout == IF hit # 0 THEN <<"t","r","u","e">> \o <<Newline>> ELSE <<"f","a","l","s","e">> \o <<Newline>>
         result == osascript(script, osaSettled(outcome, stdout))
     IN /\ svcTrace' = Append(svcTrace, Osascript(script))
        /\ svcWorld' = IF outcome = "ok" /\ hit # 0
                       THEN [svcWorld EXCEPT !.windows = removeAt(@, hit)]
                       ELSE svcWorld
        /\ svcReturn' = Returns(closed(result))
  /\ svcPc' = "done"
  /\ UNCHANGED << offService, svcCall, svcLocals >>

TerminalNext ==
  \/ TermOpenWindow
  \/ TermITermRuns
  \/ TermOpenTab
  \/ TermCloseByTitle

SpecTerminal == TerminalInit /\ [][TerminalNext]_vars

\* ------------------------------------------------------------------------
\* services/terminal/index.ts: getTerminalAdapter, getAvailableAdapters
\* ------------------------------------------------------------------------

\* const adapters = { iterm: ITermAdapter, terminal: TerminalAppAdapter },
\* in the order Object.values gives
AdapterKeys == << "iterm", "terminal" >>

\* new ITermAdapter() / new TerminalAppAdapter(): the name field
AdapterName(key) == IF key = "iterm" THEN <<"i","T","e","r","m","2">> ELSE <<"T","e","r","m","i","n","a","l",".","a","p","p">>

\* names every object literal inherits: a constructor function, functions
\* that are no constructors, and an object
InheritedConstructors == { "constructor" }
InheritedMethods == { "toString", "hasOwnProperty", "valueOf" }
InheritedObjects == { "__proto__" }

\* adapters[config.terminalType]
AdapterClassOf(terminalType) ==
  IF \E i \in DOMAIN AdapterKeys : AdapterKeys[i] = terminalType
  THEN [kind |-> "adapter", key |-> terminalType]
  ELSE IF terminalType \in InheritedConstructors THEN [kind |-> "Object", key |-> terminalType]
  ELSE IF terminalType \in InheritedMethods \cup InheritedObjects
  THEN [kind |-> "no constructor", key |-> terminalType]
  ELSE [kind |-> "undefined", key |-> terminalType]

\* the values of terminalType at hand, as text
TypeText ==
  [ iterm |-> <<"i","t","e","r","m">>, terminal |-> <<"t","e","r","m","i","n","a","l">>, unknown |-> <<"u","n","k","n","o","w","n">>,
    kitty |-> <<"k","i","t","t","y">>, constructor |-> <<"c","o","n","s","t","r","u","c","t","o","r">>, toString |-> <<"t","o","S","t","r","i","n","g">>,
    hasOwnProperty |-> <<"h","a","s","O","w","n","P","r","o","p","e","r","t","y">>, valueOf |-> <<"v","a","l","u","e","O","f">>,
    __proto__ |-> <<"_","_","p","r","o","t","o","_","_">> ]

\* getTerminalAdapter(config)
getTerminalAdapter(terminalType) ==
  LET AdapterClass == AdapterClassOf(terminalType)
  IN IF AdapterClass.kind = "undefined"
     THEN Throws(<<"U","n","k","n","o","w","n"," ","t","e","r","m","i","n","a","l"," ","t","y","p","e",":"," ">> \o TypeText[terminalType])
     ELSE IF AdapterClass.kind = "adapter"
     THEN Returns([name |-> AdapterName(AdapterClass.key)])
     ELSE IF AdapterClass.kind = "Object"
     THEN Returns([name |-> Undefined])
     ELSE Throws(<<"T","y","p","e","E","r","r","o","r",":"," ","A","d","a","p","t","e","r","C","l","a","s","s"," ","i","s"," ","n","o","t"," ","a"," ","c","o","n","s","t","r","u","c","t","o","r">>)

\* isAvailable of both adapters:
\* result.exitCode === 0 && result.stdout.trim() === 'true'
isAvailable(result) == result.exitCode = 0 /\ trim(result.stdout) = <<"t","r","u","e">>

\* how the Finder query of isAvailable can end
FinderSettles ==
  { osaSettled("ok", <<"t","r","u","e">> \o <<Newline>>), osaSettled("ok", <<"f","a","l","s","e">> \o <<Newline>>) }
  \cup { osaSettled(o, <<>>) : o \in OsaOutcomes \ {"ok"} }

FactoryCalls ==
  { [fn |-> "getTerminalAdapter", terminalType |-> t] : t \in DOMAIN TypeText }
  \cup { [fn |-> "getAvailableAdapters", terminalType |-> "iterm"] }

FactoryInit ==
  /\ WorkflowIdle
  /\ ScreenIdle
  /\ ParserIdle
  /\ SlugIdle
  /\ svcCall \in FactoryCalls
  /\ IF svcCall.fn = "getAvailableAdapters"
     THEN \E settles \in [DOMAIN AdapterKeys -> FinderSettles] : svcWorld = settles
     ELSE svcWorld = <<>>
  /\ svcLocals = [results |-> <<>>, next |-> 1]
  /\ svcPc = "called"
  /\ svcTrace = <<>>
  /\ svcReturn = Pending

\* getTerminalAdapter: the lookup, the throw or the new
FactoryGetAdapter ==
  /\ svcPc = "called"
  /\ svcCall.fn = "getTerminalAdapter"
  /\ svcReturn' = getTerminalAdapter(svcCall.terminalType)
  /\ svcPc' = "done"
  /\ UNCHANGED << offService, svcCall, svcWorld, svcLocals, svcTrace >>

\* getAvailableAdapters: const results = []
FactoryDiscoveryStarts ==
  /\ svcPc = "called"
  /\ svcCall.fn = "getAvailableAdapters"
  /\ svcPc' = "for"
  /\ UNCHANGED << offService, svcCall, svcWorld, svcLocals, svcTrace, svcReturn >>

\* results.push(adapter)
push(results, adapter) == Append(results, adapter)

\* getAvailableAdapters: one turn of the for loop
FactoryProbe ==
  /\ svcPc = "for"
  /\ svcLocals.next <= Len(AdapterKeys)
  /\ LET key == AdapterKeys[svcLocals.next]
         result == osascript(<< <<"i","s","A","v","a","i","l","a","b","l","e">> >>, svcWorld[svcLocals.next])
     IN /\ svcTrace' = Append(svcTrace, key)
        /\ svcLocals' = [results |-> IF isAvailable(result)
                                     THEN push(svcLocals.results, [name |-> AdapterName(key)])
                                     ELSE svcLocals.results,
                         next |-> svcLocals.next + 1]
  /\ UNCHANGED << offService, svcCall, svcWorld, svcPc, svcReturn >>

\* getAvailableAdapters: return results
FactoryDiscoveryReturns ==
  /\ svcPc = "for"
  /\ svcLocals.next > Len(AdapterKeys)
  /\ svcReturn' = Returns(svcLocals.results)
  /\ svcPc' = "done"
  /\ UNCHANGED << offService, svcCall, svcWorld, svcLocals, svcTrace >>

FactoryNext ==
  \/ FactoryGetAdapter
  \/ FactoryDiscoveryStarts
  \/ FactoryProbe
  \/ FactoryDiscoveryReturns

SpecFactory == FactoryInit /\ [][FactoryNext]_vars

\* ------------------------------------------------------------------------
\* utils/paths.ts: getRepoRoot and let cachedRepoRoot
\* ------------------------------------------------------------------------

\* bound: the calls of getRepoRoot in one run of the program
MaxRootCalls == 3

\* what git rev-parse --show-toplevel writes in the repository at hand
RootStdouts == { <<"/","r">> \o <<Newline>>, <<"/","r"," ","x"," ">> \o <<Newline>> }

\* how the promise of execa settles for it: git writes the root, git
\* refuses, git is not started or is killed by a signal (no exit code and
\* nothing written), or spawn throws
RootSettles(stdout) ==
  { Settled("resolved", "exited", stdout, <<>>, 0, FALSE, <<>>),
    Settled("resolved", "exited", <<>>, <<"f","a","t","a","l",":"," ","n","o","t"," ","a"," ","g","i","t"," ","r","e","p","o","s","i","t","o","r","y">>, MaxExitCode, FALSE, <<>>),
    Settled("resolved", "notStarted", <<>>, <<>>, Null, FALSE, TextSpawn),
    Settled("rejected", "notStarted", Undefined, Undefined, Null, FALSE, TextSpawn) }

ArgsShowToplevel == << <<"r","e","v","-","p","a","r","s","e">>, <<"-","-","s","h","o","w","-","t","o","p","l","e","v","e","l">> >>

\* svcLocals.cachedRepoRoot is the module variable, svcLocals.calls the
\* calls made, each awaiting execOrThrow or ended; svcTrace the order of
\* the calls, the subprocesses and the ends
RootInit ==
  /\ WorkflowIdle
  /\ ScreenIdle
  /\ ParserIdle
  /\ SlugIdle
  /\ svcCall = [fn |-> "getRepoRoot"]
  /\ \E stdout \in RootStdouts : svcWorld = [stdout |-> stdout]
  /\ svcLocals = [cachedRepoRoot |-> NullString, calls |-> <<>>]
  /\ svcPc = "running"
  /\ svcTrace = <<>>
  /\ svcReturn = Pending

\* if (cachedRepoRoot): null and the empty string are falsy
IsCached(cachedRepoRoot) == cachedRepoRoot # NullString /\ cachedRepoRoot # <<>>

RootEvent(event, call, value) == [event |-> event, call |-> call, value |-> value]

\* a call up to its await: the cached root is returned, or execOrThrow is
\* started
RootCalled ==
  /\ svcPc = "running"
  /\ svcCall.fn = "getRepoRoot"
  /\ Len(svcLocals.calls) < MaxRootCalls
  /\ LET i == Len(svcLocals.calls) + 1
     IN IF IsCached(svcLocals.cachedRepoRoot)
        THEN /\ svcLocals' = [svcLocals EXCEPT !.calls =
                                Append(@, Returns(svcLocals.cachedRepoRoot))]
             /\ svcTrace' = svcTrace \o << RootEvent("call", i, <<>>),
                                           RootEvent("end", i, svcLocals.cachedRepoRoot) >>
        ELSE /\ svcLocals' = [svcLocals EXCEPT !.calls = Append(@, Pending)]
             /\ svcTrace' = svcTrace \o << RootEvent("call", i, <<>>),
                                           RootEvent("subprocess", i, join(ArgsShowToplevel)) >>
  /\ UNCHANGED << offService, svcCall, svcWorld, svcPc, svcReturn >>

\* cachedRepoRoot = root.trim()
trimmedRoot(root) == trim(root)

\* execOrThrow settles for a call that awaits it: the root is cached and
\* returned, or the error goes to the caller
RootProbeEnds ==
  /\ svcPc = "running"
  /\ svcCall.fn = "getRepoRoot"
  /\ \E i \in DOMAIN svcLocals.calls, settled \in RootSettles(svcWorld.stdout) :
       /\ svcLocals.calls[i] = Pending
       /\ LET ended == execOrThrow(Git, ArgsShowToplevel,
                                   exec(Git, ArgsShowToplevel, [timeout |-> Null], settled))
          IN IF ended.kind = "returned"
             THEN /\ svcLocals' = [cachedRepoRoot |-> trimmedRoot(ended.value),
                                   calls |-> [svcLocals.calls EXCEPT ![i] =
                                                Returns(trimmedRoot(ended.value))]]
                  /\ svcTrace' = Append(svcTrace, RootEvent("end", i, trimmedRoot(ended.value)))
             ELSE /\ svcLocals' = [svcLocals EXCEPT !.calls[i] = ended]
                  /\ svcTrace' = Append(svcTrace, RootEvent("throw", i, ended.message))
  /\ UNCHANGED << offService, svcCall, svcWorld, svcPc, svcReturn >>

RootNext ==
  \/ RootCalled
  \/ RootProbeEnds

SpecRepoRoot == RootInit /\ [][RootNext]_vars

\* ------------------------------------------------------------------------
\* index.tsx doBanish: the 'Closing terminal...' step among several open
\* windows
\* ------------------------------------------------------------------------

\* bound: the worktrees that have a window open
MaxOpenWindows == 2

Feature == <<"f","e","a","t","u","r","e">>
TitleQuoting == <<"S","e","e"," ","#","7",":"," ","F","i","x"," ","B","u","g"," ","#","1","!">>

\* a custom worktree as the worktree list holds it, and an issue with its
\* worktree as the issue list holds it
CustomItem(branch) ==
  [type |-> "worktree", issue |-> NoIssue,
   worktree |-> MkWorktree(getWorktreePath(branch), branch)]

IssueItem(number, title) ==
  [type |-> "issue", issue |-> [number |-> number, title |-> title],
   worktree |-> MkWorktree(getWorktreePath(createBranchName(number, title)),
                           createBranchName(number, title))]

BanishItems ==
  { CustomItem(Feat), CustomItem(Feature),
    IssueItem(7, TitleShort), IssueItem(8, TitleQuoting), IssueItem(42, TitleLong) }

\* doSummon: the windowTitle of the window opened for the item
SummonTitle(it) ==
  IF it.type = "issue" THEN getTabTitle(it.issue.number, it.issue.title)
  ELSE getCustomTabTitle(it.worktree.branch)

\* the windows of n worktrees, in the order the script walks them
OpenFor(n) ==
  { ws \in [1..n -> BanishItems] : \A i, j \in 1..n : i # j => ws[i] # ws[j] }

WindowOf(it) == [title |-> SummonTitle(it), path |-> it.worktree.path]

BanishCloseInit ==
  /\ WorkflowIdle
  /\ ScreenIdle
  /\ ParserIdle
  /\ SlugIdle
  /\ \E ws \in UNION { OpenFor(n) : n \in 1..MaxOpenWindows } :
       \E i \in DOMAIN ws, t \in {"iterm", "terminal", "kitty"}, outcome \in OsaOutcomes :
         /\ svcCall = [fn |-> "doBanish", item |-> ws[i], terminalType |-> t]
         /\ svcWorld = [outcomes |-> <<outcome>>,
                        windows |-> [k \in DOMAIN ws |-> WindowOf(ws[k])]]
  /\ svcLocals = <<>>
  /\ svcPc = "closeTerminal"
  /\ svcTrace = <<>>
  /\ svcReturn = Pending

\* progress.update('Closing terminal...'); getTerminalAdapter(config)
BanishGetsAdapter ==
  /\ svcPc = "closeTerminal"
  /\ svcCall.fn = "doBanish"
  /\ LET adapter == getTerminalAdapter(svcCall.terminalType)
     IN IF adapter.kind = "thrown"
        THEN svcReturn' = adapter /\ svcPc' = "catch"
        ELSE UNCHANGED svcReturn /\ svcPc' = "closeByTitle"
  /\ svcTrace' = Append(svcTrace, <<"C","l","o","s","i","n","g"," ","t","e","r","m","i","n","a","l",".",".",".">>)
  /\ UNCHANGED << offService, svcCall, svcWorld, svcLocals >>

\* await adapter.closeByTitle(getTabTitle(...) | getCustomTabTitle(...)),
\* and progress.update('Removing worktree...')
BanishClosesByTitle ==
  /\ svcPc = "closeByTitle"
  /\ svcCall.fn = "doBanish"
  /\ LET title == BanishTitle(svcCall.item)
         names == [k \in DOMAIN svcWorld.windows |-> svcWorld.windows[k].title]
         hit == firstMatch(names, title)
         stdout == IF hit # 0 THEN <<"t","r","u","e">> \o <<Newline>> ELSE <<"f","a","l","s","e">> \o <<Newline>>
         result == osascript(closeScript(svcCall.terminalType, title),
                             osaSettled(svcWorld.outcomes[1], stdout))
     IN /\ svcWorld' = IF svcWorld.outcomes[1] = "ok" /\ hit # 0
                       THEN [svcWorld EXCEPT !.windows = removeAt(@, hit)]
                       ELSE svcWorld
        /\ svcLocals' = << closed(result) >>
        /\ svcTrace' = svcTrace \o << title, <<"R","e","m","o","v","i","n","g"," ","w","o","r","k","t","r","e","e",".",".",".">> >>
  /\ svcPc' = "removeWorktree"
  /\ UNCHANGED << offService, svcCall, svcReturn >>

BanishCloseNext ==
  \/ BanishGetsAdapter
  \/ BanishClosesByTitle

SpecBanishClose == BanishCloseInit /\ [][BanishCloseNext]_vars

\* ------------------------------------------------------------------------
\* index.tsx refreshData, statement by statement
\* ------------------------------------------------------------------------

\* bound: the calls of refreshData in one session
MaxRefreshes == 2

\* what git worktree list can give at the time of a refresh
Listings ==
  { << MkWorktree(RepoRoot, Main) >>,
    << MkWorktree(RepoRoot, Main), MkWorktree(getWorktreePath(Feat), Feat) >>,
    << MkWorktree(RepoRoot, Main),
       MkWorktree(getWorktreePath(createBranchName(7, TitleShort)),
                  createBranchName(7, TitleShort)) >> }

\* what the tracker can give
IssueLists == { TrackerIssues, << TrackerIssues[1] >> }

Fails == [failed |-> TRUE, message |-> <<"b","o","o","m">>]
Gives(value) == [failed |-> FALSE, value |-> value]

\* the outcomes of listWorktrees and fetchOpenIssues for one refresh
RefreshWorlds ==
  { [list |-> l, fetch |-> f] :
      l \in {Fails} \cup { Gives(w) : w \in Listings },
      f \in {Fails} \cup { Gives(i) : i \in IssueLists } }

\* the closure variables worktrees and issues, and what the widgets hold
RefreshInit ==
  /\ WorkflowIdle
  /\ ScreenIdle
  /\ ParserIdle
  /\ SlugIdle
  /\ \E enabled \in BOOLEAN :
       svcCall = [fn |-> "refreshData", githubIssuesEnabled |-> enabled]
  /\ svcWorld \in [1..MaxRefreshes -> RefreshWorlds]
  /\ svcLocals = [round |-> 0, worktrees |-> <<>>, issues |-> <<>>,
                  issueItems |-> <<>>, worktreeItems |-> <<>>,
                  footerError |-> NullString, lastSync |-> 0,
                  stats |-> << 0, 0 >>]
  /\ svcPc = "idle"
  /\ svcTrace = <<>>
  /\ svcReturn = Pending

\* refreshData is called: footer.setError(null)
RefreshStarts ==
  /\ svcPc = "idle"
  /\ svcCall.fn = "refreshData"
  /\ svcLocals.round < MaxRefreshes
  /\ svcLocals' = [svcLocals EXCEPT !.round = @ + 1, !.footerError = NullString]
  /\ svcPc' = "listWorktrees"
  /\ UNCHANGED << offService, svcCall, svcWorld, svcTrace, svcReturn >>

\* try { worktrees = await listWorktrees() } catch { setError; return }
RefreshLists ==
  /\ svcPc = "listWorktrees"
  /\ LET outcome == svcWorld[svcLocals.round].list
     IN IF outcome.failed
        THEN /\ svcLocals' = [svcLocals EXCEPT !.footerError = outcome.message]
             /\ svcPc' = "idle"
             /\ svcTrace' = Append(svcTrace, "list failed")
        ELSE /\ svcLocals' = [svcLocals EXCEPT !.worktrees = outcome.value]
             /\ svcPc' = "fetchOpenIssues"
             /\ UNCHANGED svcTrace
  /\ UNCHANGED << offService, svcCall, svcWorld, svcReturn >>

\* variant: a failed fetch empties the issues
issuesEmptiedOnFailure(enabled, outcome, previous) ==
  IF enabled /\ ~outcome.failed THEN outcome.value ELSE <<>>

\* the if (config.githubIssuesEnabled) statement: let issues afterwards
issuesAfterFetch(enabled, outcome, previous) ==
  IF enabled
  THEN IF outcome.failed THEN previous ELSE outcome.value
  ELSE <<>>

\* if (config.githubIssuesEnabled) { try { issues = await fetchOpenIssues() }
\* catch { setError('GitHub: ' + ...) } } else { issues = [] }
RefreshFetches ==
  /\ svcPc = "fetchOpenIssues"
  /\ LET outcome == svcWorld[svcLocals.round].fetch
     IN /\ svcLocals' = [svcLocals EXCEPT
             !.issues = issuesAfterFetch(svcCall.githubIssuesEnabled, outcome, @),
             !.footerError = IF svcCall.githubIssuesEnabled /\ outcome.failed
                             THEN <<"G","i","t","H","u","b",":"," ">> \o outcome.message ELSE @]
        /\ svcTrace' = IF svcCall.githubIssuesEnabled /\ outcome.failed
                       THEN Append(svcTrace, "fetch failed") ELSE svcTrace
  /\ svcPc' = "update"
  /\ UNCHANGED << offService, svcCall, svcWorld, svcReturn >>

\* statsPanel.update, splitList.setIssues, splitList.setWorktrees,
\* footer.setLastSync(new Date())
RefreshUpdates ==
  /\ svcPc = "update"
  /\ svcLocals' = [svcLocals EXCEPT
       !.stats = << Len(svcLocals.issues), Len(SelectNonMain(svcLocals.worktrees)) >>,
       !.issueItems = setIssues(svcLocals.issues, svcLocals.worktrees),
       !.worktreeItems = setWorktrees(svcLocals.worktrees),
       !.lastSync = @ + 1]
  /\ svcPc' = "idle"
  /\ UNCHANGED << offService, svcCall, svcWorld, svcTrace, svcReturn >>

RefreshNext ==
  \/ RefreshStarts
  \/ RefreshLists
  \/ RefreshFetches
  \/ RefreshUpdates

SpecRefresh == RefreshInit /\ [][RefreshNext]_vars

\* ------------------------------------------------------------------------
\* hooks/usePolling.ts: usePolling
\* ------------------------------------------------------------------------

\* bound: the calls of refresh in the life of one component
MaxPollRefreshes == 3

\* bound: the renders, timer ticks, calls and settlements of one life
MaxPollEvents == 6

EmptyStore ==
  [issues |-> <<>>, worktrees |-> <<>>, lastSync |-> 0, error |-> NullString,
   isLoadingIssues |-> FALSE, isLoadingWorktrees |-> FALSE]

\* what the two promises of a refresh resolve to: a failure is caught and
\* gives []
PollIssues == { <<>>, TrackerIssues }
PollWorktrees == { <<>>, << MkWorktree(RepoRoot, Main) >> }

\* svcLocals: the component (life), its props and config, the two refs, the
\* timer of the runtime, the refresh calls awaiting Promise.all, the store
PollingInit ==
  /\ WorkflowIdle
  /\ ScreenIdle
  /\ ParserIdle
  /\ SlugIdle
  /\ svcCall = [fn |-> "usePolling"]
  /\ svcWorld = <<>>
  /\ \E enabled \in BOOLEAN, gh \in BOOLEAN :
       svcLocals = [life |-> "new", enabled |-> enabled, githubIssuesEnabled |-> gh,
                    isMountedRef |-> TRUE, intervalRef |-> NullString, timer |-> FALSE,
                    awaiting |-> 0, started |-> 0, store |-> EmptyStore]
  /\ svcPc = "react"
  /\ svcTrace = <<>>
  /\ svcReturn = Pending

\* refresh up to its await: the guard, the two loading flags, Promise.all
refreshCalled(l) ==
  IF ~l.isMountedRef THEN l
  ELSE [l EXCEPT !.store.isLoadingIssues = TRUE,
                 !.store.isLoadingWorktrees = TRUE,
                 !.awaiting = @ + 1,
                 !.started = @ + 1]

\* the effect of lines 76-93: the timer is set when enabled
intervalEffect(l) ==
  IF ~l.enabled
  THEN [l EXCEPT !.intervalRef = NullString,
                 !.timer = IF l.intervalRef # NullString THEN FALSE ELSE @]
  ELSE [l EXCEPT !.intervalRef = <<"t","i","m","e","r">>, !.timer = TRUE]

\* its cleanup: clearInterval(intervalRef.current)
intervalCleanup(l) ==
  IF l.intervalRef # NullString
  THEN [l EXCEPT !.intervalRef = NullString, !.timer = FALSE]
  ELSE l

\* the effect of lines 66-73 and its cleanup
mountEffect(l) == refreshCalled([l EXCEPT !.isMountedRef = TRUE])
mountCleanup(l) == [l EXCEPT !.isMountedRef = FALSE]

\* the component is mounted: both effects run
PollMounts ==
  /\ svcPc = "react"
  /\ Len(svcTrace) < MaxPollEvents
  /\ svcCall.fn = "usePolling"
  /\ svcLocals.life = "new"
  /\ svcLocals' = intervalEffect(mountEffect([svcLocals EXCEPT !.life = "mounted"]))
  /\ svcTrace' = Append(svcTrace, "mount")
  /\ UNCHANGED << offService, svcCall, svcWorld, svcPc, svcReturn >>

\* a render with another enabled: the interval effect is cleaned up and run
PollEnabledChanges ==
  /\ svcPc = "react"
  /\ Len(svcTrace) < MaxPollEvents
  /\ svcLocals.life = "mounted"
  /\ svcLocals' = intervalEffect(intervalCleanup([svcLocals EXCEPT !.enabled = ~@]))
  /\ svcTrace' = Append(svcTrace, "enabled")
  /\ UNCHANGED << offService, svcCall, svcWorld, svcPc, svcReturn >>

\* a render with another config.githubIssuesEnabled: refresh is a new
\* function, so both effects are cleaned up and run
PollConfigChanges ==
  /\ svcPc = "react"
  /\ Len(svcTrace) < MaxPollEvents
  /\ svcLocals.life = "mounted"
  /\ svcLocals.started < MaxPollRefreshes
  /\ svcLocals' = intervalEffect(mountEffect(intervalCleanup(mountCleanup(
                    [svcLocals EXCEPT !.githubIssuesEnabled = ~@]))))
  /\ svcTrace' = Append(svcTrace, "config")
  /\ UNCHANGED << offService, svcCall, svcWorld, svcPc, svcReturn >>

\* the timer fires: refresh is called
PollTimerFires ==
  /\ svcPc = "react"
  /\ Len(svcTrace) < MaxPollEvents
  /\ svcLocals.timer
  /\ svcLocals.started < MaxPollRefreshes
  /\ svcLocals' = refreshCalled(svcLocals)
  /\ svcTrace' = Append(svcTrace, "interval")
  /\ UNCHANGED << offService, svcCall, svcWorld, svcPc, svcReturn >>

\* the refresh the hook returned is called by its holder, at any time
PollRefreshCalled ==
  /\ svcPc = "react"
  /\ Len(svcTrace) < MaxPollEvents
  /\ svcLocals.life # "new"
  /\ svcLocals.started < MaxPollRefreshes
  /\ svcLocals' = refreshCalled(svcLocals)
  /\ svcTrace' = Append(svcTrace, "caller")
  /\ UNCHANGED << offService, svcCall, svcWorld, svcPc, svcReturn >>

\* the component is unmounted: both cleanups run
PollUnmounts ==
  /\ svcPc = "react"
  /\ Len(svcTrace) < MaxPollEvents
  /\ svcLocals.life = "mounted"
  /\ svcLocals' = intervalCleanup(mountCleanup([svcLocals EXCEPT !.life = "unmounted"]))
  /\ svcTrace' = Append(svcTrace, "unmount")
  /\ UNCHANGED << offService, svcCall, svcWorld, svcPc, svcReturn >>

\* variant: no guard after the await
writesAfterAwaitUnguarded(isMountedRef) == TRUE

\* if (!isMountedRef.current) return, and the guard of the finally block
writesAfterAwait(isMountedRef) == isMountedRef

\* Promise.all of a refresh resolves: the guard, the four writes, finally
PollRefreshSettles ==
  /\ svcPc = "react"
  /\ Len(svcTrace) < MaxPollEvents
  /\ svcLocals.awaiting > 0
  /\ \E iss \in PollIssues, wts \in PollWorktrees :
       svcLocals' =
         IF writesAfterAwait(svcLocals.isMountedRef)
         THEN [svcLocals EXCEPT
                 !.awaiting = @ - 1,
                 !.store = [issues |-> iss, worktrees |-> wts,
                            lastSync |-> svcLocals.store.lastSync + 1,
                            error |-> NullString,
                            isLoadingIssues |-> FALSE, isLoadingWorktrees |-> FALSE]]
         ELSE [svcLocals EXCEPT !.awaiting = @ - 1]
  /\ svcTrace' = Append(svcTrace, "settled")
  /\ UNCHANGED << offService, svcCall, svcWorld, svcPc, svcReturn >>

PollingNext ==
  \/ PollMounts
  \/ PollEnabledChanges
  \/ PollConfigChanges
  \/ PollTimerFires
  \/ PollRefreshCalled
  \/ PollUnmounts
  \/ PollRefreshSettles

SpecPolling == PollingInit /\ [][PollingNext]_vars

\* ------------------------------------------------------------------------
\* commands/init.tsx: InitWizard
\* ------------------------------------------------------------------------

\* bound: the times the user confirms the summary in one run
MaxSaves == 2

\* String.prototype.split(',')
RECURSIVE splitComma(_)
splitComma(s) ==
  LET breaks == { i \in DOMAIN s : s[i] = "," }
  IN IF breaks = {} THEN <<s>>
     ELSE LET first == CHOOSE i \in breaks : \A j \in breaks : i <= j
          IN <<SubSeq(s, 1, first - 1)>> \o splitComma(SubSeq(s, first + 1, Len(s)))

\* Array.prototype.filter(Boolean) on strings
RECURSIVE filterBoolean(_)
filterBoolean(list) ==
  IF list = <<>> THEN <<>>
  ELSE (IF Head(list) = <<>> THEN <<>> ELSE <<Head(list)>>) \o filterBoolean(Tail(list))

\* what the user submits in a TextInput
TextInputs == { <<>>, CmdBuild }

\* what the user submits at the setup-commands step
SetupInputs ==
  { <<>>, <<"n","o","n","e">>, <<"N","o","n","e">>, <<",">>, <<" ","b","u","i","l","d">>, <<"n","p","m"," ","i","n","s","t","a","l","l",","," ","b","u","i","l","d">> }

\* the onSubmit of the setup-commands step: the setupCommands it stores
setupCommandsOf(value) ==
  IF toLowerCase(value) = <<"n","o","n","e">> \/ value = <<>>
  THEN NoCommands
  ELSE LET commands == filterBoolean([i \in DOMAIN splitComma(value) |-> trim(splitComma(value)[i])])
       IN IF Len(commands) > 0 THEN commands ELSE NoCommands

\* value || fallback
orDefault(value, fallback) == IF value = <<>> THEN fallback ELSE value

NoFile == [exists |-> FALSE]
\* what writeFile(getConfigPath(repoRoot), JSON.stringify(config, null, 2)) leaves
FileOf(cfg) == [exists |-> TRUE, whole |-> TRUE, content |-> cfg]
\* what a writeFile that failed may leave
Truncated == [exists |-> TRUE, whole |-> FALSE]

\* the outcomes of saveConfig: mkdir rejects, writeFile rejects, both resolve
SaveOutcomes == { "mkdir rejects", "writeFile rejects", "resolves" }

\* useState('welcome'), useState({ ...DEFAULT_CONFIG }), useState(null)
WizardInit ==
  /\ WorkflowIdle
  /\ ScreenIdle
  /\ ParserIdle
  /\ SlugIdle
  /\ svcCall = [fn |-> "InitWizard", repoRoot |-> RepoRoot]
  /\ svcWorld \in { [file |-> f] : f \in { NoFile, FileOf(DEFAULT_CONFIG) } }
  /\ svcLocals = [step |-> "welcome", config |-> DEFAULT_CONFIG,
                  error |-> NullString, saves |-> 0]
  /\ svcPc = "input"
  /\ svcTrace = <<>>
  /\ svcReturn = Pending

AtStep(step) ==
  /\ svcCall.fn = "InitWizard"
  /\ svcPc = "input"
  /\ svcLocals.step = step

\* onCancel={onComplete}, and index.tsx: onComplete={() => process.exit(0)}
onComplete ==
  /\ svcPc' = "exited"
  /\ svcTrace' = Append(svcTrace, "declined")
  /\ UNCHANGED << offService, svcCall, svcWorld, svcLocals, svcReturn >>

\* welcome: onConfirm={() => setStep('terminal-type')}
WelcomeConfirm ==
  /\ AtStep("welcome")
  /\ svcLocals' = [svcLocals EXCEPT !.step = "terminal-type"]
  /\ UNCHANGED << offService, svcCall, svcWorld, svcPc, svcTrace, svcReturn >>

\* welcome: onCancel={onComplete}
WelcomeCancel ==
  /\ AtStep("welcome")
  /\ onComplete

\* terminal-type: updateConfig({ terminalType: value }); setStep('frame1-enabled')
TerminalTypeChosen ==
  /\ AtStep("terminal-type")
  /\ \E value \in { "iterm", "terminal" } :
       svcLocals' = [svcLocals EXCEPT !.config.terminalType = value,
                                      !.step = "frame1-enabled"]
  /\ UNCHANGED << offService, svcCall, svcWorld, svcPc, svcTrace, svcReturn >>

\* variant: the command step follows whatever the answer
afterFrameEnabledAlways(enabled, commandStep, nextStep) == commandStep

\* the step the handlers of a frameN-enabled step set
afterFrameEnabled(enabled, commandStep, nextStep) ==
  IF enabled THEN commandStep ELSE nextStep

\* frame1-enabled: onConfirm and onCancel
Frame1Enabled ==
  /\ AtStep("frame1-enabled")
  /\ \E enabled \in BOOLEAN :
       svcLocals' = [svcLocals EXCEPT
         !.config.frame1.enabled = enabled,
         !.step = afterFrameEnabled(enabled, "frame1-command", "frame2-enabled")]
  /\ UNCHANGED << offService, svcCall, svcWorld, svcPc, svcTrace, svcReturn >>

\* frame1-command: onSubmit
Frame1Command ==
  /\ AtStep("frame1-command")
  /\ \E value \in TextInputs :
       svcLocals' = [svcLocals EXCEPT
         !.config.frame1.command = orDefault(value, DEFAULT_CONFIG.frame1.command),
         !.step = "frame2-enabled"]
  /\ UNCHANGED << offService, svcCall, svcWorld, svcPc, svcTrace, svcReturn >>

\* frame2-enabled: onConfirm and onCancel
Frame2Enabled ==
  /\ AtStep("frame2-enabled")
  /\ \E enabled \in BOOLEAN :
       svcLocals' = [svcLocals EXCEPT
         !.config.frame2.enabled = enabled,
         !.step = afterFrameEnabled(enabled, "frame2-command", "ai-command")]
  /\ UNCHANGED << offService, svcCall, svcWorld, svcPc, svcTrace, svcReturn >>

\* frame2-command: onSubmit
Frame2Command ==
  /\ AtStep("frame2-command")
  /\ \E value \in TextInputs :
       svcLocals' = [svcLocals EXCEPT
         !.config.frame2.command = orDefault(value, DEFAULT_CONFIG.frame2.command),
         !.step = "ai-command"]
  /\ UNCHANGED << offService, svcCall, svcWorld, svcPc, svcTrace, svcReturn >>

\* ai-command: onSubmit
AiCommand ==
  /\ AtStep("ai-command")
  /\ \E value \in TextInputs :
       svcLocals' = [svcLocals EXCEPT
         !.config.defaultAICommand = orDefault(value, DEFAULT_CONFIG.defaultAICommand),
         !.step = "setup-commands"]
  /\ UNCHANGED << offService, svcCall, svcWorld, svcPc, svcTrace, svcReturn >>

\* setup-commands: onSubmit
SetupCommands ==
  /\ AtStep("setup-commands")
  /\ \E value \in SetupInputs :
       svcLocals' = [svcLocals EXCEPT
         !.config.setupCommands = setupCommandsOf(value),
         !.step = "github-enabled"]
  /\ UNCHANGED << offService, svcCall, svcWorld, svcPc, svcTrace, svcReturn >>

\* github-enabled: onConfirm and onCancel
GithubEnabled ==
  /\ AtStep("github-enabled")
  /\ \E enabled \in BOOLEAN :
       svcLocals' = [svcLocals EXCEPT
         !.config.githubIssuesEnabled = enabled,
         !.step = "confirm"]
  /\ UNCHANGED << offService, svcCall, svcWorld, svcPc, svcTrace, svcReturn >>

\* confirm: onConfirm={handleSave}, up to the await
handleSave ==
  /\ AtStep("confirm")
  /\ svcLocals.saves < MaxSaves
  /\ svcLocals' = [svcLocals EXCEPT !.step = "saving", !.saves = @ + 1]
  /\ svcPc' = "saveConfig"
  /\ svcTrace' = Append(svcTrace, "confirmed")
  /\ UNCHANGED << offService, svcCall, svcWorld, svcReturn >>

\* confirm: onCancel={onComplete}
ConfirmCancel ==
  /\ AtStep("confirm")
  /\ onComplete

\* the file after saveConfig settled
fileAfter(outcome, file, cfg) ==
  CASE outcome = "resolves" -> { FileOf(cfg) }
    [] outcome = "mkdir rejects" -> { file }
    [] outcome = "writeFile rejects" -> { file, Truncated }

\* await saveConfig(repoRoot, config) settles: setStep('complete') and
\* setTimeout(onComplete, 1500), or setError(...) and setStep('error')
SaveSettles ==
  /\ svcCall.fn = "InitWizard"
  /\ svcPc = "saveConfig"
  /\ \E outcome \in SaveOutcomes :
       /\ \E f \in fileAfter(outcome, svcWorld.file, svcLocals.config) :
            svcWorld' = [svcWorld EXCEPT !.file = f]
       /\ IF outcome = "resolves"
          THEN /\ svcLocals' = [svcLocals EXCEPT !.step = "complete"]
               /\ svcPc' = "timer"
               /\ svcTrace' = Append(svcTrace, "saved")
          ELSE /\ svcLocals' = [svcLocals EXCEPT !.step = "error", !.error = <<"b","o","o","m">>]
               /\ svcPc' = "input"
               /\ svcTrace' = Append(svcTrace, "failed")
  /\ UNCHANGED << offService, svcCall, svcReturn >>

\* setTimeout(onComplete, 1500) fires
TimerFires ==
  /\ svcCall.fn = "InitWizard"
  /\ svcPc = "timer"
  /\ svcPc' = "exited"
  /\ UNCHANGED << offService, svcCall, svcWorld, svcLocals, svcTrace, svcReturn >>

\* error: onConfirm={() => { setError(null); setStep('terminal-type') }}
ErrorRetry ==
  /\ AtStep("error")
  /\ svcLocals' = [svcLocals EXCEPT !.error = NullString, !.step = "terminal-type"]
  /\ UNCHANGED << offService, svcCall, svcWorld, svcPc, svcTrace, svcReturn >>

\* error: onCancel={onComplete}
ErrorCancel ==
  /\ AtStep("error")
  /\ onComplete

WizardNext ==
  \/ WelcomeConfirm
  \/ WelcomeCancel
  \/ TerminalTypeChosen
  \/ Frame1Enabled
  \/ Frame1Command
  \/ Frame2Enabled
  \/ Frame2Command
  \/ AiCommand
  \/ SetupCommands
  \/ GithubEnabled
  \/ handleSave
  \/ ConfirmCancel
  \/ SaveSettles
  \/ TimerFires
  \/ ErrorRetry
  \/ ErrorCancel

SpecWizard == WizardInit /\ [][WizardNext]_vars

\* ------------------------------------------------------------------------
\* Properties
\* ------------------------------------------------------------------------
\* the running workflow made a call of this kind with this result
Made(op, result) == \E i \in DOMAIN calls : calls[i].op = op /\ calls[i].result = result

\* the running workflow made a call of this kind
Called(op) == \E i \in DOMAIN calls : calls[i].op = op

Outcomes == {", branch deleted", ", branch kept", ", branch kept (unmerged)"}

\* C1: a summon whose worktree creation and setup commands all succeeded
\* but whose openWindow returned false ends in the error dialog, never in
\* the success dialog, and its worktree is still there.
C1_OpenFailureReported ==
  ( /\ pc = "dialog"
    /\ run.kind = "summon"
    /\ Made("git worktree add", TRUE)
    /\ ~Made("sh -c", FALSE)
    /\ Made("openWindow", FALSE) )
  => /\ dialog.type = "error"
     /\ run.branchName \in Range(worktrees)

\* C2: once a setup command of a summon has failed, the run is over with
\* the error dialog naming that command, the failed command is the last
\* call (no later command, no openWindow), and the created worktree and
\* branch are still there.
C2_SetupFailureStops ==
  ( run.kind = "summon" /\ Made("sh -c", FALSE) )
  => /\ pc = "dialog"
     /\ dialog.type = "error"
     /\ dialog.message = <<"Command failed: ">>
     /\ calls[Len(calls)].op = "sh -c"
     /\ calls[Len(calls)].result = FALSE
     /\ dialog.detail = calls[Len(calls)].arg
     /\ \A i \in 1..(Len(calls) - 1) : calls[i].result = TRUE \/ calls[i].op = "gh issue edit"
     /\ ~Called("openWindow")
     /\ run.branchName \in branches
     /\ run.branchName \in Range(worktrees)

C2_Witness ==
  /\ pc = "dialog"
  /\ run.kind = "summon"
  /\ Made("sh -c", FALSE)
  /\ Made("sh -c", TRUE)

\* C3: the assign step of a summon goes on to the setup step whatever the
\* assignment returned, changing nothing but the log of calls; and a summon
\* whose assignment failed never ends in an error unless a later step failed.
C3_AssignFailureSwallowed ==
  /\ [][ pc = "s_assign" =>
           /\ pc' = "s_setup"
           /\ UNCHANGED << dialog, run, item, world, ui, config >> ]_vars
  /\ []( ( /\ pc = "dialog"
           /\ run.kind = "summon"
           /\ Made("gh issue edit", FALSE)
           /\ dialog.type = "error" )
         => \/ calls[Len(calls)].op = "sh -c" /\ calls[Len(calls)].result = FALSE
            \/ config.terminalType \notin KnownTerminalTypes )

C3_Witness ==
  /\ pc = "dialog"
  /\ run.kind = "summon"
  /\ Made("gh issue edit", FALSE)
  /\ Made("openWindow", TRUE)
  /\ dialog.type = "success"

\* C4: banish attempts a branch deletion only after its worktree removal
\* succeeded and isBranchMerged returned true, only as git branch -d, never
\* as git branch -D; a branch reported unmerged is still there afterwards
\* if it was there before.
C4_SafeDeletionOnly ==
  /\ ~Called("git branch -D")
  /\ Called("git branch -d")
       => /\ run.kind = "banish"
          /\ run.merged
          /\ \E i \in DOMAIN calls, j \in DOMAIN calls :
               /\ i < j
               /\ calls[i].op = "git worktree remove" /\ calls[i].result = TRUE
               /\ calls[j].op = "git branch -d"
  /\ ( run.kind = "banish" /\ pc = "dialog" /\ ~run.merged
       /\ Made("git rev-parse --verify", TRUE) )
       => item.worktree.branch \in branches

C4_Witness ==
  /\ pc = "dialog"
  /\ run.kind = "banish"
  /\ Made("git branch -d", TRUE)
  /\ item.worktree.branch \notin branches

\* C5: a banish whose worktree removal succeeded ends in the success dialog
\* with exactly one outcome: branch deleted when merged and the deletion
\* succeeded, branch kept when merged and the deletion failed, branch kept
\* (unmerged) when not merged; a banish whose removal failed ends in the
\* error dialog with none of them.
C5_OneOutcome ==
  /\ ( run.kind = "banish" /\ Made("git worktree remove", TRUE) /\ pc = "dialog" )
       => /\ dialog.type = "success"
          /\ dialog.message =
               << "Worktree removed",
                  IF run.merged
                  THEN (IF Made("git branch -d", TRUE) THEN ", branch deleted"
                        ELSE ", branch kept")
                  ELSE ", branch kept (unmerged)" >>
          /\ run.merged => Called("git branch -d")
  /\ ( run.kind = "banish" /\ Made("git worktree remove", FALSE) )
       => /\ pc = "dialog"
          /\ dialog.type = "error"
          /\ \A k \in DOMAIN dialog.message : dialog.message[k] \notin Outcomes
          /\ calls[Len(calls)].op = "git worktree remove"
  /\ ( run.kind = "banish" /\ pc \in {"b_merge", "b_delete"} )
       => Made("git worktree remove", TRUE)

C5_Witness ==
  /\ pc = "dialog"
  /\ run.kind = "banish"
  /\ run.merged
  /\ Made("git branch -d", FALSE)
  /\ dialog.message = <<"Worktree removed", ", branch kept">>

\* C6: a banish that reached its close-terminal step always goes on to
\* attempt the removal of the worktree, however that step ended.
C6_CloseFailureNeverAborts ==
  ( run.kind = "banish" /\ pc = "dialog" /\ Called("git status") )
  => Called("git worktree remove")

\* C7: the step after the uncommitted-changes check is the close-terminal
\* step whatever the check returned, with nothing changed but the record of
\* the result; the close step follows it in the log; and a banish that found
\* changes ends in an error only when the removal failed or the terminal
\* type is unknown.
C7_ChangesCheckAdvisory ==
  /\ [][ ( pc = "b_check" /\ item.worktree # NoWorktree ) =>
           /\ pc' = "b_close"
           /\ UNCHANGED << dialog, item, world, ui, config >>
           /\ [run' EXCEPT !.hasChanges = FALSE] = [run EXCEPT !.hasChanges = FALSE] ]_vars
  /\ []( ( run.kind = "banish" /\ Len(calls) >= 2 )
         => calls[1].op = "git status" /\ calls[2].op = "closeByTitle" )
  /\ []( ( /\ run.kind = "banish"
           /\ pc = "dialog"
           /\ Made("git status", TRUE)
           /\ dialog.type = "error" )
         => \/ Made("git worktree remove", FALSE)
            \/ config.terminalType \notin KnownTerminalTypes )

C7_Witness ==
  /\ pc = "dialog"
  /\ run.kind = "banish"
  /\ Made("git status", TRUE)
  /\ Made("git worktree remove", TRUE)
  /\ dialog.type = "success"

\* C8: in a repository whose default branch is not main, a banish whose
\* removal succeeded and whose branch is merged into the default branch
\* (no git call failing for another reason) finds the branch merged and
\* attempts its deletion.
C8_MergedIntoDefaultBranch ==
  ( /\ run.kind = "banish"
    /\ pc = "dialog"
    /\ defaultBranch # Main
    /\ Made("git worktree remove", TRUE)
    /\ run.mergedIntoDefault
    /\ ~run.mergeFault )
  => /\ run.merged
     /\ Called("git branch -d")

\* C9: the title a banish passes to closeByTitle is the title of every tab
\* that a summon opened for the worktree being banished.
C9_CloseTitleIsOpenTitle ==
  run.kind = "banish" =>
    \A i \in DOMAIN calls :
      calls[i].op = "closeByTitle" =>
        \A w \in BagToSet(windows) :
          w.dir = item.worktree.path => w.title = calls[i].arg

\* the place of a summon step in the order of doSummon
StepRank(op) ==
  CASE op = "git worktree add" -> 1
    [] op = "gh issue edit" -> 2
    [] op = "sh -c" -> 3
    [] op = "openWindow" -> 4
    [] OTHER -> 0

\* C10: the calls of a summon run are, in this order, one worktree creation,
\* for an issue one assignment, the setup commands, one openWindow; nothing
\* follows a failed creation; a custom summon makes no assignment; and the
\* terminal is opened only after every setup command has run.
C10_SummonOrder ==
  run.kind = "summon" =>
    /\ \A i \in DOMAIN calls : StepRank(calls[i].op) > 0
    /\ \A i \in DOMAIN calls, j \in DOMAIN calls :
         i < j => /\ StepRank(calls[i].op) <= StepRank(calls[j].op)
                  /\ StepRank(calls[i].op) = StepRank(calls[j].op)
                       => calls[i].op = "sh -c"
    /\ Len(calls) >= 1 => calls[1].op = "git worktree add"
    /\ Len(calls) >= 2 => calls[1].result = TRUE
    /\ pc \in {"s_assign", "s_setup", "s_open"} => Made("git worktree add", TRUE)
    /\ ( item.type = "issue" /\ Len(calls) >= 2 ) => calls[2].op = "gh issue edit"
    /\ item.type # "issue" => ~Called("gh issue edit")
    /\ ( Called("openWindow") /\ HasSetupCommands(config) )
         => Cardinality({i \in DOMAIN calls : calls[i].op = "sh -c" /\ calls[i].result})
              = Len(config.setupCommands)

C10_Witness ==
  /\ pc = "dialog"
  /\ run.kind = "summon"
  /\ item.type = "issue"
  /\ Called("gh issue edit")
  /\ Made("sh -c", TRUE)
  /\ Called("openWindow")

\* C11: at most one of the summon, banish, lock and unlock workflows is in
\* flight at any time.
C11_OneWorkflowAtATime == BagCardinality(inFlight) <= 1

\* C12: when the message dialog of a workflow that created or removed a
\* worktree is closed, the worktree list shown is the one derived from the
\* worktrees that exist then, unless the listing itself failed.
C12_ListFreshAfterWorkflow ==
  [][ ( /\ pc = "dialog"
        /\ pc' = "idle"
        /\ Made("git worktree add", TRUE) \/ Made("git worktree remove", TRUE) )
      => \/ footerError' = "Failed to list worktrees"
         \/ worktreeItems' = setWorktrees(listWorktrees') ]_vars

\* a record as the format describes it: it has a worktree line that names a
\* path, and a branch line that names a branch or the line 'detached'
HasPath(rec) ==
  \E i \in DOMAIN rec : StartsWith(rec[i], WorktreeKey) /\ Len(rec[i]) > Len(WorktreeKey)

HasBranch(rec) ==
  \E i \in DOMAIN rec :
    \/ StartsWith(rec[i], BranchKey) /\ Len(rec[i]) > Len(BranchKey)
    \/ rec[i] = DetachedLine

WellFormed(rec) == HasPath(rec) /\ HasBranch(rec)

\* the records of the output that are well-formed, in the order of the output
Whole == SelectSeq(records, WellFormed)

\* C13: the parser returns one Worktree for each well-formed record of its
\* input, in the order of the input, each with the values the record yields
\* when parsed alone; a record without a path or without a branch yields
\* nothing and changes nothing of the records around it.
C13_OrderPreserving ==
  parserPc = "returned" =>
    /\ Len(parsed) = Len(Whole)
    /\ \A i \in DOMAIN parsed : <<parsed[i]>> = parseWorktreeOutput(joinLines(Whole[i]))

\* a record is dropped between two that are returned
C13_Witness ==
  /\ parserPc = "returned"
  /\ Len(parsed) = 2
  /\ Len(records) = 3
  /\ WellFormed(records[1])
  /\ ~WellFormed(records[2]) /\ records[2] # <<>>
  /\ WellFormed(records[3])

\* C14: the result is the same whether or not a blank line follows the last
\* record, and it is what the loop alone returns when a blank line is put
\* after the last line: the end of the input closes the pending record as a
\* blank line does, once.
C14_TrailingBlankLine ==
  parserPc = "returned" =>
    /\ parsed = parseWorktreeOutput(joinRecords(records))
    /\ parsed = parseWorktreeOutput(joinRecords(records) \o <<Newline, Newline>>)
    /\ parsed = forLoop(ParseState(EmptyCurrent, <<>>), Append(lines, <<>>)).worktrees

\* the output ends with the last line of a well-formed record, which is
\* returned
C14_Witness ==
  /\ parserPc = "returned"
  /\ records # <<>>
  /\ output = joinRecords(records)
  /\ WellFormed(records[Len(records)])
  /\ Len(parsed) = Len(Whole)

\* a record whose last branch or detached line is 'detached'
IsDetached(rec) ==
  \E i \in DOMAIN rec :
    /\ rec[i] = DetachedLine
    /\ \A j \in DOMAIN rec : j > i => ~StartsWith(rec[j], BranchKey)

\* C15: every Worktree returned has a path and a branch that are not empty,
\* isMain exactly for the branches main and master, and an issueNumber that
\* is null for those and extractIssueNumber(branch) for the others; the
\* Worktree of a detached record has the branch 'detached' and is not main.
C15_EmittedWorktree ==
  /\ \A i \in DOMAIN parsed :
       /\ parsed[i].path \notin {<<>>, Undefined}
       /\ parsed[i].branch \notin {<<>>, Undefined}
       /\ parsed[i].isMain <=> parsed[i].branch \in {Main, Master}
       /\ parsed[i].issueNumber =
            IF parsed[i].isMain THEN Null ELSE extractIssueNumber(parsed[i].branch)
  /\ parserPc = "returned" =>
       \A i \in DOMAIN parsed \cap DOMAIN Whole :
         IsDetached(Whole[i]) =>
           parsed[i].branch = DetachedLine /\ ~parsed[i].isMain

\* a main worktree, an issue worktree and a detached one are returned
C15_Witness ==
  /\ parserPc = "returned"
  /\ \E i \in DOMAIN parsed : parsed[i].isMain /\ parsed[i].branch = Master
  /\ \E i \in DOMAIN parsed : parsed[i].issueNumber = 7
  /\ \E i \in DOMAIN parsed : IsDetached(Whole[i]) /\ parsed[i].branch = DetachedLine

IsLockedLine(line) == line = LockedLine \/ StartsWith(line, LockedKey)

IsPrunableLine(line) == line = PrunableLine \/ StartsWith(line, PrunableKey)

\* the text after 'locked ' on the last locked line of the record that
\* gives a reason, null when no line gives one
ReasonGiven(rec) ==
  LET given == { i \in DOMAIN rec :
                   StartsWith(rec[i], LockedKey) /\ Len(rec[i]) > Len(LockedKey) }
  IN IF given = {} THEN NullString
     ELSE LET last == CHOOSE i \in given : \A j \in given : i >= j
          IN SubSeq(rec[last], Len(LockedKey) + 1, Len(rec[last]))

\* C16: a Worktree returned is locked exactly when its own record has a
\* locked line, its lockReason is the text after 'locked ' there or null,
\* and it is prunable exactly when its own record has a prunable line;
\* nothing of the record before it is kept.
C16_LockAndPrunablePerRecord ==
  parserPc = "returned" =>
    \A i \in DOMAIN parsed \cap DOMAIN Whole :
      /\ parsed[i].isLocked <=> \E j \in DOMAIN Whole[i] : IsLockedLine(Whole[i][j])
      /\ parsed[i].lockReason = ReasonGiven(Whole[i])
      /\ parsed[i].isPrunable <=> \E j \in DOMAIN Whole[i] : IsPrunableLine(Whole[i][j])

\* a record locked with a reason is followed by one that is neither locked
\* nor prunable
C16_Witness ==
  /\ parserPc = "returned"
  /\ Len(parsed) >= 2
  /\ \E i \in DOMAIN parsed :
       /\ i + 1 \in DOMAIN parsed
       /\ parsed[i].isLocked
       /\ parsed[i].lockReason = <<"w","i","p">>
       /\ ~parsed[i + 1].isLocked
       /\ parsed[i + 1].lockReason = NullString
       /\ ~parsed[i + 1].isPrunable

\* the two-state machine: idle until a 'worktree ' line, accumulating until
\* the blank line that closes the record
MachineState(mode, cur, wts) == [mode |-> mode, current |-> cur, worktrees |-> wts]

MachineStep(m, line) ==
  IF m.mode = "idle"
  THEN IF StartsWith(line, WorktreeKey)
       THEN MachineState("accumulating", setField(EmptyCurrent, line), m.worktrees)
       ELSE m
  ELSE IF line = <<>>
       THEN MachineState("idle", EmptyCurrent,
                         pushIfComplete(ParseState(m.current, m.worktrees)).worktrees)
       ELSE MachineState("accumulating", setField(m.current, line), m.worktrees)

RECURSIVE MachineRun(_, _)
MachineRun(m, ls) ==
  IF ls = <<>> THEN m
  ELSE MachineRun(MachineStep(m, Head(ls)), Tail(ls))

\* the end of the input closes the record of an accumulating machine
MachineResult(ls) ==
  LET m == MachineRun(MachineState("idle", EmptyCurrent, <<>>), ls)
  IN IF m.mode = "accumulating"
     THEN pushIfComplete(ParseState(m.current, m.worktrees)).worktrees
     ELSE m.worktrees

\* C17: the parser returns what the two-state machine returns: a record
\* begins at its 'worktree ' line, and a field line read before that line
\* gives nothing to any Worktree.
C17_TwoStateMachine ==
  parserPc = "returned" => parsed = MachineResult(lines)

\* C18: what slugify returns has only the characters a-z, 0-9 and hyphen,
\* neither begins nor ends with a hyphen, has no two hyphens in a row, and
\* has at most 50 characters.
C18_SlugShape ==
  slugCall.done = <<"slugify">> =>
    /\ \A i \in DOMAIN slugResult.slug : slugResult.slug[i] \in LowerAlnumSet \cup {"-"}
    /\ slugResult.slug # <<>> =>
         slugResult.slug[1] # "-" /\ slugResult.slug[Len(slugResult.slug)] # "-"
    /\ \A i \in DOMAIN slugResult.slug :
         i + 1 \in DOMAIN slugResult.slug =>
           ~(slugResult.slug[i] = "-" /\ slugResult.slug[i + 1] = "-")
    /\ Len(slugResult.slug) <= SLUG_MAX_LENGTH

\* C19: the issue number read back from the branch name made for issue n
\* and any title is n.
C19_RoundTrip ==
  slugCall.done = <<"createBranchName", "extractIssueNumber">> =>
    slugResult.number = slugNumber

\* the round trip of a number of two digits with a title whose slug begins
\* with a digit
C19_Witness ==
  /\ slugCall.done = <<"createBranchName", "extractIssueNumber">>
  /\ slugNumber > 9
  /\ slugify(slugText) # <<>>
  /\ IsDigit(slugify(slugText)[1])
  /\ slugResult.number = slugNumber

\* the branch name begins with 'issue-' and a digit
BeginsWithIssueNumber(b) ==
  /\ Len(b) > Len(IssuePrefix)
  /\ \A i \in DOMAIN IssuePrefix : b[i] = IssuePrefix[i]
  /\ b[Len(IssuePrefix) + 1] \in DigitSet

\* the last position of the run of digits that follows the prefix
DigitRunEnd(b) ==
  CHOOSE k \in DOMAIN b :
    /\ k > Len(IssuePrefix)
    /\ \A j \in (Len(IssuePrefix) + 1)..k : b[j] \in DigitSet
    /\ k + 1 \in DOMAIN b => b[k + 1] \notin DigitSet

\* C20: extractIssueNumber returns null unless the branch name begins with
\* 'issue-' and a digit, and then the value of the whole run of digits that
\* follows the prefix.
C20_ExtractIssueNumber ==
  slugCall.done = <<"extractIssueNumber">> =>
    slugResult.number =
      IF BeginsWithIssueNumber(slugBranch)
      THEN ParseInt(SubSeq(slugBranch, Len(IssuePrefix) + 1, DigitRunEnd(slugBranch)))
      ELSE Null

\* 'issue-' and a digit appear in the branch name, not at its start, and
\* null is returned
C20_Witness ==
  /\ slugCall.done = <<"extractIssueNumber">>
  /\ ~BeginsWithIssueNumber(slugBranch)
  /\ Contains(slugBranch, IssuePrefix \o <<"7">>)
  /\ slugResult.number = Null

\* C23: exec does not throw; when the process could not be started its
\* result has a non-zero exit code (1 when the failure carries none) and the
\* failure message as stderr, so that an exit code 0 is returned only for a
\* process that exited with code 0.
C23_SpawnFailureFolded ==
  (svcCall.fn = "exec" /\ svcPc = "done") =>
    /\ svcReturn.kind = "returned"
    /\ svcWorld.did = "notStarted" =>
         /\ svcReturn.value.exitCode # 0
         /\ svcWorld.exitCode = Null => svcReturn.value.exitCode = 1
         /\ svcReturn.value.stderr \in {svcWorld.stderr, svcWorld.message}
    /\ svcReturn.value.exitCode = 0 =>
         svcWorld.did = "exited" /\ svcWorld.exitCode = 0

\* the limit a call runs under: the caller's value, 30000 ms without one
LimitOf(call) ==
  IF call.options.timeout = Null THEN DEFAULT_TIMEOUT_MS ELSE call.options.timeout

\* C24: when the process is killed at its timeout, exec returns, without
\* throwing, the exit code 124 and a stderr that names the limit in
\* milliseconds, whatever exit code and output came with the result.
C24_TimeoutResult ==
  (svcCall.fn = "exec" /\ svcPc = "done" /\ svcWorld.did = "timedOut") =>
    /\ svcReturn.kind = "returned"
    /\ svcReturn.value.exitCode = 124
    /\ Contains(svcReturn.value.stderr, NumToStr(LimitOf(svcCall)) \o <<"m","s">>)

\* a timeout under the caller's limit, of a result that carries the exit
\* code 0 and some output
C24_Witness ==
  /\ svcCall.fn = "exec"
  /\ svcPc = "done"
  /\ svcWorld.did = "timedOut"
  /\ svcCall.options.timeout = 5000
  /\ svcWorld.exitCode = 0
  /\ svcWorld.stdout = TextOut
  /\ svcReturn.value.exitCode = 124

\* C25: execOrThrow returns the stdout of exec exactly when the exit code is
\* 0; otherwise it throws the stderr, or 'Command failed: ' with the command
\* and its arguments when stderr is empty; a timeout and a process that
\* could not be started end in a throw.
C25_ExecOrThrow ==
  (svcCall.fn = "execOrThrow" /\ svcPc = "done") =>
    /\ svcReturn.kind = "returned" <=> svcLocals.exitCode = 0
    /\ svcReturn.kind = "returned" => svcReturn.value = svcLocals.stdout
    /\ svcReturn.kind = "thrown" =>
         svcReturn.message =
           IF svcLocals.stderr # <<>> THEN svcLocals.stderr
           ELSE <<"C","o","m","m","a","n","d"," ","f","a","i","l","e","d",":"," ">> \o svcCall.command \o <<" ">> \o join(svcCall.args)
    /\ svcWorld.did \in {"timedOut", "notStarted"} => svcReturn.kind = "thrown"

\* the entries of a list at the positions that satisfy a test, in order
RECURSIVE Picked(_, _, _)
Picked(list, installed, wanted) ==
  IF list = <<>> THEN <<>>
  ELSE IF (Head(list) \in installed) = wanted
  THEN <<Head(list)>> \o Picked(Tail(list), installed, wanted)
  ELSE Picked(Tail(list), installed, wanted)

\* C26: checkDependencies returns, in available, the commands whose probe
\* found them and, in missing, the others, each in the order of the input,
\* so that every command of the input is in exactly one of the two lists,
\* in whatever order the probes settle.
C26_DependenciesPartition ==
  (svcCall.fn = "checkDependencies" /\ svcPc = "done") =>
    /\ svcReturn.value.available = Picked(svcCall.commands, svcWorld, TRUE)
    /\ svcReturn.value.missing = Picked(svcCall.commands, svcWorld, FALSE)
    /\ Len(svcReturn.value.available) + Len(svcReturn.value.missing) = Len(svcCall.commands)
    /\ Range(svcReturn.value.available) \cap Range(svcReturn.value.missing) = {}

\* three commands, the first missing and the other two found
C26_Witness ==
  /\ svcCall.fn = "checkDependencies"
  /\ svcPc = "done"
  /\ Len(svcCall.commands) = 3
  /\ Len(svcReturn.value.available) = 2
  /\ svcReturn.value.missing = <<svcCall.commands[1]>>

\* the entries of the trace of one kind
OfKind(trace, kind) == SelectSeq(trace, LAMBDA e : e.event = kind)

\* the commands to run: none for null
Configured(call) ==
  IF call.setupCommands = NoCommands THEN <<>> ELSE call.setupCommands

\* the position of the first command that exits non-zero, 0 when none does
FirstFailure(call, results) ==
  LET failing == { k \in DOMAIN Configured(call) : results[k].exitCode # 0 }
  IN IF failing = {} THEN 0
     ELSE CHOOSE k \in failing : \A j \in failing : k <= j

\* the number of commands that are run
RunCount(call, results) ==
  IF FirstFailure(call, results) = 0 THEN Len(Configured(call))
  ELSE FirstFailure(call, results)

\* C21: setupWorktree runs the configured commands in order up to the first
\* that exits non-zero, that one included, each started after the one
\* before it has ended; it then throws an error that contains the command
\* and its stderr, and returns when none fails or none is configured.
C21_SetupPrefix ==
  /\ svcCall.fn = "setupWorktree" =>
       \A p \in DOMAIN svcTrace :
         (svcTrace[p].event = "exec" /\ \E r \in 1..(p - 1) : svcTrace[r].event = "exec") =>
           \E r \in 1..(p - 1) :
             /\ svcTrace[r].event = "exit"
             /\ \A t \in (r + 1)..(p - 1) : svcTrace[t].event # "exec"
  /\ (svcCall.fn = "setupWorktree" /\ svcPc = "done") =>
       LET started == OfKind(svcTrace, "exec")
           k == FirstFailure(svcCall, svcWorld)
       IN /\ Len(started) = RunCount(svcCall, svcWorld)
          /\ \A j \in DOMAIN started : started[j].args[2] = svcCall.setupCommands[j]
          /\ svcReturn.kind = "thrown" <=> k # 0
          /\ k # 0 =>
               /\ Contains(svcReturn.message, svcCall.setupCommands[k])
               /\ Contains(svcReturn.message, svcWorld[k].stderr)

\* the second of three commands fails with some stderr: two were run
C21_Witness ==
  /\ svcCall.fn = "setupWorktree"
  /\ svcPc = "done"
  /\ Len(Configured(svcCall)) = 3
  /\ FirstFailure(svcCall, svcWorld) = 2
  /\ svcWorld[2].stderr = TextErr
  /\ Len(OfKind(svcTrace, "exec")) = 2
  /\ svcReturn.kind = "thrown"

\* C22: with a progress callback, setupWorktree calls it once right before
\* each command it runs and at no other time, with the command as step, the
\* position of the command counted from 1 as current and the number of
\* configured commands as total; when the k-th command fails, k calls have
\* been made.
C22_ProgressCalls ==
  (svcCall.fn = "setupWorktree" /\ svcCall.onProgress) =>
    /\ Len(OfKind(svcTrace, "progress")) = Len(OfKind(svcTrace, "exec"))
    /\ \A p \in DOMAIN svcTrace :
         svcTrace[p].event = "exec" =>
           /\ p > 1
           /\ svcTrace[p - 1] =
                [event |-> "progress",
                 step |-> svcTrace[p].args[2],
                 current |-> Len(OfKind(SubSeq(svcTrace, 1, p), "exec")),
                 total |-> Len(svcCall.setupCommands)]
           /\ svcTrace[p].args[2] =
                svcCall.setupCommands[Len(OfKind(SubSeq(svcTrace, 1, p), "exec"))]
    /\ (svcPc = "done" /\ FirstFailure(svcCall, svcWorld) # 0) =>
         Len(OfKind(svcTrace, "progress")) = FirstFailure(svcCall, svcWorld)

\* the third of three commands fails after three progress calls
C22_Witness ==
  /\ svcCall.fn = "setupWorktree"
  /\ svcCall.onProgress
  /\ svcPc = "done"
  /\ FirstFailure(svcCall, svcWorld) = 3
  /\ Len(OfKind(svcTrace, "progress")) = 3

\* the name a line of git branch --merged lists: the line without the
\* whitespace around it and without the marker of the current branch
ListedName(line) ==
  IF StartsWith(trim(line), <<"*"," ">>)
  THEN SubSeq(trim(line), 3, Len(trim(line)))
  ELSE trim(line)

ListedNames(stdout) == { ListedName(split(stdout)[i]) : i \in DOMAIN split(stdout) }

\* C27: isBranchMerged returns true exactly when the branch exists, the
\* listing of the merged branches succeeds and the branch is one of the
\* names listed; for a branch that does not exist it returns false and the
\* merged branches are not listed; when the listing fails it returns false
\* and throws nothing.
C27_IsBranchMerged ==
  (svcCall.fn = "isBranchMerged" /\ svcPc = "done" /\ svcWorld.root # "fails") =>
    /\ svcReturn.kind = "returned"
    /\ svcReturn.value <=>
         /\ svcWorld.verify = 0
         /\ svcWorld.merged.exitCode = 0
         /\ svcCall.branchName \in ListedNames(svcWorld.merged.stdout)
    /\ svcWorld.verify # 0 =>
         \A i \in DOMAIN svcTrace : ~StartsWith(svcTrace[i], <<"b","r","a","n","c","h"," ","-","-","m","e","r","g","e","d">>)

\* the branch is listed as the current branch, and true is returned
C27_Witness ==
  /\ svcCall.fn = "isBranchMerged"
  /\ svcPc = "done"
  /\ svcCall.branchName = Feat
  /\ Contains(svcWorld.merged.stdout, <<"*"," ","f","e","a","t">>)
  /\ ~Contains(svcWorld.merged.stdout, <<" "," ","f","e","a","t">>)
  /\ svcReturn = Returns(TRUE)

\* C28: getDefaultBranch always returns: the branch the symbolic HEAD of the
\* remote names when that query succeeds, else main when a local main
\* exists, else master when a local master exists, else main, and then a
\* warning is written.
C28_DefaultBranch ==
  (svcCall.fn = "getDefaultBranch" /\ svcPc = "done") =>
    /\ svcReturn.kind = "returned"
    /\ svcReturn.value =
         IF svcWorld.symbolicRef.exitCode = 0
         THEN LET ref == trim(svcWorld.symbolicRef.stdout)
              IN IF StartsWith(ref, <<"r","e","f","s","/","r","e","m","o","t","e","s","/","o","r","i","g","i","n","/">>)
                 THEN SubSeq(ref, Len(<<"r","e","f","s","/","r","e","m","o","t","e","s","/","o","r","i","g","i","n","/">>) + 1, Len(ref))
                 ELSE ref
         ELSE IF svcWorld.main = 0 THEN Main
         ELSE IF svcWorld.master = 0 THEN Master
         ELSE Main
    /\ (svcWorld.symbolicRef.exitCode # 0 /\ svcWorld.main # 0 /\ svcWorld.master # 0) =>
         \E i \in DOMAIN svcTrace : StartsWith(svcTrace[i], <<"c","o","n","s","o","l","e",".","w","a","r","n">>)

\* C29: cleanGitError of a message that holds 'is already locked' is
\* 'Worktree is already locked', of one that holds 'is not locked' (and not
\* the former) 'Worktree is not locked', and of any other message the
\* message without a leading 'fatal:' in any letter case, trimmed; the empty
\* message gives the empty message.
WithoutFatal(message) ==
  IF /\ Len(message) >= 6
     /\ message[1] \in {"f", "F"} /\ message[2] \in {"a", "A"}
     /\ message[3] \in {"t", "T"} /\ message[4] \in {"a", "A"}
     /\ message[5] \in {"l", "L"} /\ message[6] = ":"
  THEN SubSeq(message, 7, Len(message))
  ELSE message

C29_CleanGitError ==
  (svcCall.fn = "cleanGitError" /\ svcPc = "done") =>
    /\ svcReturn.kind = "returned"
    /\ svcReturn.value =
         IF Contains(svcCall.message, AlreadyLocked) THEN <<"W","o","r","k","t","r","e","e"," ","i","s"," ","a","l","r","e","a","d","y"," ","l","o","c","k","e","d">>
         ELSE IF Contains(svcCall.message, NotLocked) THEN <<"W","o","r","k","t","r","e","e"," ","i","s"," ","n","o","t"," ","l","o","c","k","e","d">>
         ELSE trim(WithoutFatal(svcCall.message))
    /\ svcCall.message = <<>> => svcReturn.value = <<>>

\* a message headed by 'FATAL:' in capitals, with blanks around the text, has
\* been cleaned to the bare text
C29_Witness ==
  /\ svcCall.fn = "cleanGitError" /\ svcPc = "done"
  /\ StartsWith(svcCall.message, <<"F","A","T","A","L",":"," ">>)
  /\ Len(svcCall.message) > 7
  /\ svcCall.message[Len(svcCall.message)] = " "
  /\ svcReturn = Returns(trim(SubSeq(svcCall.message, 7, Len(svcCall.message))))
  /\ svcReturn.value # <<>>

\* the git command of the call was run and did not succeed, as execOrThrow
\* sees it: a non-zero exit code, a timeout, or a rejected promise
LockCommandRan ==
  /\ svcCall \in LockCalls
  /\ \E i \in DOMAIN svcTrace :
       svcTrace[i] \in { <<"w","o","r","k","t","r","e","e"," ","l","o","c","k"," ","/","a">>, <<"w","o","r","k","t","r","e","e"," ","l","o","c","k"," ","/","a"," ","-","-","r","e","a","s","o","n"," ","w","i","p">>,
                         <<"w","o","r","k","t","r","e","e"," ","u","n","l","o","c","k"," ","/","a">> }

LockCommandFailed ==
  /\ LockCommandRan
  /\ \/ svcWorld.settled.how = "rejected"
     \/ svcWorld.settled.timedOut
     \/ svcWorld.settled.exitCode \notin {Null, 0}

\* the text of that failure: what git wrote, else the text execOrThrow
\* makes of the command; the text of the timeout; the message of execa
LockFailureText ==
  LET words == IF svcCall.fn \in {"unlockWorktree", "doUnlock"} THEN <<"g","i","t"," ","w","o","r","k","t","r","e","e"," ","u","n","l","o","c","k"," ","/","a">>
               ELSE IF svcCall.reason = <<"w","i","p">> THEN <<"g","i","t"," ","w","o","r","k","t","r","e","e"," ","l","o","c","k"," ","/","a"," ","-","-","r","e","a","s","o","n"," ","w","i","p">>
               ELSE <<"g","i","t"," ","w","o","r","k","t","r","e","e"," ","l","o","c","k"," ","/","a">>
  IN IF svcWorld.settled.how = "rejected" THEN svcWorld.settled.message
     ELSE IF svcWorld.settled.timedOut THEN <<"C","o","m","m","a","n","d"," ","t","i","m","e","d"," ","o","u","t"," ","a","f","t","e","r"," ","3","0","0","0","0","m","s",":"," ">> \o words
     ELSE IF svcWorld.settled.stderr # <<>> THEN svcWorld.settled.stderr
     ELSE <<"C","o","m","m","a","n","d"," ","f","a","i","l","e","d",":"," ">> \o words

LockServiceContract ==
  /\ LockCommandFailed =>
       /\ svcReturn = Throws(cleanGitError(LockFailureText))
       /\ (svcCall.fn \in {"doLock", "doUnlock"} /\ svcPc \in {"dialog", "done"}) =>
            /\ svcLocals.dialog.type = "error"
            /\ svcLocals.dialog.message = cleanGitError(LockFailureText)
  /\ (LockCommandRan /\ svcWorld.settled.did = "exited" /\ svcWorld.settled.exitCode = 0) =>
       svcReturn.kind = "returned"

IssuedCalls == 1..Len(Scripts(svcTrace))
ExitedZero(k) == svcWorld.outcomes[k] = "ok"

\* C31: openWindow never throws and returns true exactly when every
\* osascript call it made exited zero; with no frames it makes no call and
\* returns true, and the adapter that opens one tab per frame opens no
\* second tab when the first one failed.
C31_OpenWindow ==
  (svcCall \in OpenWindowCalls /\ svcPc = "done") =>
    /\ svcReturn.kind = "returned"
    /\ svcReturn.value <=> \A k \in IssuedCalls : ExitedZero(k)
    /\ Len(svcCall.frames) = 0 => (IssuedCalls = {} /\ svcReturn.value)
    /\ (svcCall.adapter = "terminal" /\ IssuedCalls # {} /\ ~ExitedZero(1)) =>
         IssuedCalls = {1}

\* the tabs or windows whose name contains the title of the call
TitleHits == { i \in DOMAIN svcWorld.windows : Contains(svcWorld.windows[i], svcCall.title) }

\* C32: closeByTitle returns true exactly when its osascript call exited
\* zero and closed a tab or window whose name contains the title; what it
\* closes is the first such one and nothing else, and when nothing matches
\* or the call fails it returns false, throws nothing and closes nothing.
C32_CloseByTitle ==
  [][(svcCall \in CloseByTitleCalls /\ svcPc = "called") =>
       /\ svcReturn'.kind = "returned"
       /\ svcReturn'.value <=> (svcWorld.outcomes[1] = "ok" /\ TitleHits # {})
       /\ svcReturn'.value =>
            \E i \in TitleHits :
              /\ \A j \in TitleHits : i <= j
              /\ Len(svcWorld'.windows) = Len(svcWorld.windows) - 1
              /\ \A k \in DOMAIN svcWorld'.windows :
                   svcWorld'.windows[k] = svcWorld.windows[IF k < i THEN k ELSE k + 1]
       /\ ~svcReturn'.value => svcWorld'.windows = svcWorld.windows]_vars

\* closeByTitle returned true with two tabs matching: the second one is
\* still open
C32_Witness ==
  /\ svcCall \in CloseByTitleCalls /\ svcPc = "done"
  /\ svcReturn = Returns(TRUE)
  /\ svcCall.title = <<"#","1",":"," ","a">>
  /\ svcWorld.windows = << <<"#","1",":"," ","a","\"">> >>

\* the character an escape of the script language stands for
Unescaped(c) ==
  CASE c = "n" -> Newline
    [] c = "r" -> "\r"
    [] c = "t" -> "\t"
    [] OTHER -> c

\* reading a string literal of the script from the character after its
\* opening quote: the text it denotes and the place of its closing quote
\* (0 when the line ends before one)
RECURSIVE readLiteral(_, _, _)
readLiteral(line, p, acc) ==
  IF p > Len(line) THEN [text |-> acc, end |-> 0]
  ELSE IF line[p] = "\"" THEN [text |-> acc, end |-> p]
  ELSE IF line[p] = "\\"
  THEN IF p + 1 > Len(line) THEN [text |-> acc, end |-> 0]
       ELSE readLiteral(line, p + 2, Append(acc, Unescaped(line[p + 1])))
  ELSE readLiteral(line, p + 1, Append(acc, line[p]))

\* the line is prefix, one literal, suffix, and the literal denotes text
LiteralIs(line, prefix, suffix, text) ==
  /\ StartsWith(line, prefix \o <<"\"">>)
  /\ LET r == readLiteral(line, Len(prefix) + 2, <<>>)
     IN /\ r.end > 0
        /\ r.text = text
        /\ SubSeq(line, r.end + 1, Len(line)) = suffix

\* the text the one literal of the line denotes
LiteralOf(line, prefix) == readLiteral(line, Len(prefix) + 2, <<>>).text

\* reading a shell word from place p: the word, the place after it, and
\* whether the text ended inside single quotes
RECURSIVE readWord(_, _, _, _)
readWord(text, p, acc, quoted) ==
  IF p > Len(text) THEN [word |-> acc, end |-> p, open |-> quoted]
  ELSE IF quoted
  THEN IF text[p] = "'" THEN readWord(text, p + 1, acc, FALSE)
       ELSE readWord(text, p + 1, Append(acc, text[p]), TRUE)
  ELSE IF text[p] = "'" THEN readWord(text, p + 1, acc, TRUE)
  ELSE IF text[p] = "\\"
  THEN IF p + 1 > Len(text) THEN [word |-> acc, end |-> p, open |-> TRUE]
       ELSE readWord(text, p + 2, Append(acc, text[p + 1]), FALSE)
  ELSE IF text[p] = " " THEN [word |-> acc, end |-> p, open |-> FALSE]
  ELSE readWord(text, p + 1, Append(acc, text[p]), FALSE)

\* the shell text is cd, one quoted word that reads as the directory, and
\* then nothing or a command joined by &&
CdInto(text, directory) ==
  /\ StartsWith(text, <<"c","d"," ","'">>)
  /\ LET w == readWord(text, 4, <<>>, FALSE)
     IN /\ ~w.open
        /\ w.word = directory
        /\ \/ w.end = Len(text) + 1
           \/ StartsWith(SubSeq(text, w.end, Len(text)), <<" ","&","&"," ">>)

\* a line that writes the cd of a frame to a pane
CdLineOk(line, prefix, directory) ==
  /\ StartsWith(line, prefix \o <<"\"">>)
  /\ LET r == readLiteral(line, Len(prefix) + 2, <<>>)
     IN /\ r.end = Len(line)
        /\ CdInto(r.text, directory)

\* a line that writes the command of a frame, or the empty line
CommandLineOk(line, frame) ==
  IF HasCommand(frame) THEN LiteralIs(line, <<"w","r","i","t","e"," ","t","e","x","t"," ">>, <<>>, frame.command)
  ELSE line = <<>>

\* every literal of script k of the call holds the text it was made from
ScriptEscaped(k) ==
  LET script == Scripts(svcTrace)[k].script
  IN IF svcCall.fn = "closeByTitle"
     THEN IF svcCall.adapter = "iterm"
          THEN LiteralIs(script[5], <<"i","f"," ","n","a","m","e"," ","o","f"," ","c","u","r","r","e","n","t"," ","s","e","s","s","i","o","n"," ","o","f"," ","t"," ","c","o","n","t","a","i","n","s"," ">>, <<" ","t","h","e","n">>, svcCall.title)
          ELSE LiteralIs(script[3], <<"i","f"," ","n","a","m","e"," ","o","f"," ","w"," ","c","o","n","t","a","i","n","s"," ">>, <<" ","t","h","e","n">>, svcCall.title)
     ELSE IF svcCall.adapter = "terminal"
     THEN /\ CdLineOk(script[3], <<"d","o"," ","s","c","r","i","p","t"," ">>, svcCall.frames[k].directory)
          /\ LiteralIs(script[4], <<"s","e","t"," ","c","u","s","t","o","m"," ","t","i","t","l","e"," ","o","f"," ","f","r","o","n","t"," ","w","i","n","d","o","w"," ","t","o"," ">>, <<>>, svcCall.windowTitle)
     ELSE /\ LiteralIs(script[6], <<"s","e","t"," ","n","a","m","e"," ","t","o"," ">>, <<>>, svcCall.windowTitle)
          /\ CdLineOk(script[7], <<"w","r","i","t","e"," ","t","e","x","t"," ">>, svcCall.frames[1].directory)
          /\ CommandLineOk(script[8], svcCall.frames[1])
          /\ Len(svcCall.frames) > 1 =>
               /\ CdLineOk(script[12], <<"w","r","i","t","e"," ","t","e","x","t"," ">>, svcCall.frames[2].directory)
               /\ CommandLineOk(script[13], svcCall.frames[2])

\* C33: in every script the adapters hand to osascript, the literal made
\* from a title, a directory or a command ends where the adapter closed it
\* and denotes that text, and the directory stands in the shell text as one
\* single-quoted word that reads as the directory.
C33_ScriptsEscaped ==
  \A k \in DOMAIN Scripts(svcTrace) : ScriptEscaped(k)

\* the shell text is a cd into the directory and then, joined by &&, the
\* command as it is, or nothing when the frame has no command
CdThenCommand(text, frame) ==
  /\ StartsWith(text, <<"c","d"," ","'">>)
  /\ LET w == readWord(text, 4, <<>>, FALSE)
     IN /\ ~w.open
        /\ w.word = frame.directory
        /\ SubSeq(text, w.end, Len(text)) =
             IF HasCommand(frame) THEN <<" ","&","&"," ">> \o frame.command ELSE <<>>

\* what script k of an openWindow call sends to its panes
PaneRunsAsConfigured(k) ==
  LET script == Scripts(svcTrace)[k].script
  IN IF svcCall.adapter = "terminal"
     THEN CdThenCommand(LiteralOf(script[3], <<"d","o"," ","s","c","r","i","p","t"," ">>), svcCall.frames[k])
     ELSE /\ CdThenCommand(LiteralOf(script[7], <<"w","r","i","t","e"," ","t","e","x","t"," ">>),
                           [svcCall.frames[1] EXCEPT !.command = <<>>])
          /\ CommandLineOk(script[8], svcCall.frames[1])
          /\ Len(svcCall.frames) > 1 =>
               /\ CdThenCommand(LiteralOf(script[12], <<"w","r","i","t","e"," ","t","e","x","t"," ">>),
                                [svcCall.frames[2] EXCEPT !.command = <<>>])
               /\ CommandLineOk(script[13], svcCall.frames[2])

\* C34: for both adapters the shell text a pane receives, read back from
\* the literal of the script, is a cd into the directory of the frame,
\* followed when the frame has a command by that command, character for
\* character.
C34_PaneCommand ==
  svcCall \in OpenWindowCalls =>
    \A k \in DOMAIN Scripts(svcTrace) : PaneRunsAsConfigured(k)

\* the adapters whose Finder query said true, in the order of the registry
ReportedAvailable ==
  LET said(i) == svcWorld[i].did = "exited" /\ svcWorld[i].exitCode = 0
                 /\ svcWorld[i].stdout = <<"t","r","u","e">> \o <<Newline>>
  IN (IF said(1) THEN << [name |-> <<"i","T","e","r","m","2">>] >> ELSE << >>)
     \o (IF said(2) THEN << [name |-> <<"T","e","r","m","i","n","a","l",".","a","p","p">>] >> ELSE << >>)

\* C35: getTerminalAdapter returns the iTerm2 adapter for iterm and the
\* Terminal.app adapter for terminal, and for every other value throws an
\* error that says 'Unknown terminal type'; getAvailableAdapters returns the
\* adapters whose isAvailable said true, in the order of the registry.
C35_AdapterFactory ==
  (svcCall \in FactoryCalls /\ svcPc = "done") =>
    IF svcCall.fn = "getAvailableAdapters"
    THEN svcReturn = Returns(ReportedAvailable)
    ELSE IF svcCall.terminalType = "iterm" THEN svcReturn = Returns([name |-> <<"i","T","e","r","m","2">>])
    ELSE IF svcCall.terminalType = "terminal" THEN svcReturn = Returns([name |-> <<"T","e","r","m","i","n","a","l",".","a","p","p">>])
    ELSE /\ svcReturn.kind = "thrown"
         /\ StartsWith(svcReturn.message, <<"U","n","k","n","o","w","n"," ","t","e","r","m","i","n","a","l"," ","t","y","p","e">>)

\* the places of the trace where call i was made, ran git, returned
CallAt(p, i) == svcTrace[p].event = "call" /\ svcTrace[p].call = i
ProbeOf(i) == \E p \in DOMAIN svcTrace : svcTrace[p].event = "subprocess" /\ svcTrace[p].call = i
ReturnAt(p) == svcTrace[p].event = "end"

\* C36: a call of getRepoRoot made after one has returned runs no
\* subprocess and returns the value that one returned, which is what git
\* wrote, trimmed; a call made when none has returned yet runs git again.
C36_RepoRootCached ==
  svcCall.fn = "getRepoRoot" =>
    /\ \A p \in DOMAIN svcTrace : ReturnAt(p) => svcTrace[p].value = trim(svcWorld.stdout)
    /\ \A p, q \in DOMAIN svcTrace :
         (p < q /\ ReturnAt(p) /\ svcTrace[q].event = "call") =>
           /\ ~ProbeOf(svcTrace[q].call)
           /\ svcLocals.calls[svcTrace[q].call] = Returns(svcTrace[p].value)
    /\ \A q \in DOMAIN svcTrace :
         (svcTrace[q].event = "call" /\ \A p \in 1..(q - 1) : ~ReturnAt(p)) =>
           ProbeOf(svcTrace[q].call)

\* C37: the closeByTitle call of doBanish closes no window of another
\* worktree: every window that is not the one of the worktree banished is
\* still open after it.
C37_BanishClosesOwnWindow ==
  [][(svcCall.fn = "doBanish" /\ svcPc = "closeByTitle") =>
       \A k \in DOMAIN svcWorld.windows :
         svcWorld.windows[k].path # svcCall.item.worktree.path =>
           \E m \in DOMAIN svcWorld'.windows : svcWorld'.windows[m] = svcWorld.windows[k]]_vars

\* the issues of the entries the issue list shows
ShownIssues(items) == <<>> \o [i \in DOMAIN items |-> items[i].issue]

\* the refresh at hand, and what its two queries do
InRefresh == svcCall.fn = "refreshData" /\ svcPc # "idle"
ListFails == svcWorld[svcLocals.round].list.failed
FetchFails ==
  svcCall.githubIssuesEnabled /\ ~ListFails /\ svcWorld[svcLocals.round].fetch.failed

\* one step of refreshData keeps what the claim says it keeps
RefreshStepKeeps ==
  /\ ListFails =>
       /\ svcLocals'.issueItems = svcLocals.issueItems
       /\ svcLocals'.worktreeItems = svcLocals.worktreeItems
       /\ svcLocals'.lastSync = svcLocals.lastSync
       /\ svcPc' = "idle" => svcLocals'.footerError \notin {NullString, <<>>}
  /\ (FetchFails /\ svcPc' = "idle") =>
       /\ svcLocals'.worktreeItems = setWorktrees(svcWorld[svcLocals.round].list.value)
       /\ ShownIssues(svcLocals'.issueItems) = ShownIssues(svcLocals.issueItems)
       /\ StartsWith(svcLocals'.footerError, <<"G","i","t","H","u","b",":"," ">>)

\* C38: when listWorktrees fails, refreshData leaves the issue list, the
\* worktree list and the last-sync time as they were and ends with an error
\* in the footer; when only fetchOpenIssues fails, it ends with the
\* worktree list made from the fresh listing, the issues shown before still
\* shown, and the error in the footer.
C38_RefreshPartialFailure ==
  [][InRefresh => RefreshStepKeeps]_vars

\* a second refresh whose fetch failed has ended: the footer holds the
\* error, the worktree list is the fresh one, and the two issues of the
\* first refresh are still shown
C38_Witness ==
  /\ svcCall.fn = "refreshData" /\ svcPc = "idle"
  /\ svcLocals.round = 2 /\ svcLocals.lastSync = 2
  /\ svcWorld[2].fetch.failed /\ ~svcWorld[2].list.failed
  /\ svcWorld[1].list # svcWorld[2].list
  /\ StartsWith(svcLocals.footerError, <<"G","i","t","H","u","b",":"," ">>)
  /\ ShownIssues(svcLocals.issueItems) = TrackerIssues
  /\ svcLocals.worktreeItems = setWorktrees(svcWorld[2].list.value)

\* C39: once the component is unmounted no refresh writes to the store,
\* be it one that awaited at the unmount or one called later, and the timer
\* is cleared; while enabled is false no timer is set, so no refresh is
\* driven by the interval.
C39_PollingAfterUnmount ==
  /\ [][(svcCall.fn = "usePolling" /\ svcLocals.life = "unmounted") =>
          svcLocals'.store = svcLocals.store]_vars
  /\ [](svcCall.fn = "usePolling" =>
          /\ svcLocals.life = "unmounted" => (~svcLocals.timer /\ svcLocals.intervalRef = NullString)
          /\ svcLocals.timer => svcLocals.enabled)
  /\ [][(svcCall.fn = "usePolling" /\ svcTrace' # svcTrace
          /\ svcTrace'[Len(svcTrace')] = "interval") => svcLocals.enabled]_vars

\* the component was unmounted while a refresh awaited; the refresh has
\* settled and one more was called, and the store still has the loading
\* flags of the refresh and no issues
C39_Witness ==
  /\ svcCall.fn = "usePolling"
  /\ svcLocals.life = "unmounted"
  /\ svcLocals.awaiting = 0
  /\ Len(svcTrace) >= 4
  /\ svcTrace[Len(svcTrace)] = "caller"
  /\ svcTrace[Len(svcTrace) - 1] = "settled"
  /\ svcTrace[Len(svcTrace) - 2] = "unmount"
  /\ svcLocals.store.isLoadingIssues
  /\ svcLocals.store.lastSync = 0

\* the last event of the run so far
LastEvent == IF svcTrace = <<>> THEN "none" ELSE svcTrace[Len(svcTrace)]

\* the frameN-command step is entered from the frameN-enabled step, and
\* exactly by the answer that enabled the frame
FrameStepVisited(frame, enabledStep, commandStep) ==
  /\ (svcLocals'.step = commandStep /\ svcLocals.step # commandStep) =>
       (svcLocals.step = enabledStep /\ svcLocals'.config[frame].enabled)
  /\ (svcLocals.step = enabledStep /\ svcLocals'.step # enabledStep) =>
       (svcLocals'.step = commandStep <=> svcLocals'.config[frame].enabled)

\* C40: the init wizard changes the config file only in the save the user
\* confirmed at the confirm step; step complete is shown only after that save
\* resolved, the file then holding the summarised configuration, and step
\* error only after it rejected; declining at welcome, confirm or error
\* ends the wizard with the file as it was; and the frame1-command
\* (frame2-command) step is entered exactly when frame 1 (frame 2) was
\* enabled at the step before
C40_InitWizard ==
  /\ [][svcCall.fn = "InitWizard" =>
          /\ (svcLocals'.step = "saving" /\ svcLocals.step # "saving") =>
               (svcLocals.step = "confirm" /\ LastEvent' = "confirmed")
          /\ svcWorld'.file # svcWorld.file =>
               (svcLocals.step = "saving" /\ LastEvent = "confirmed")
          /\ LastEvent' = "declined" =>
               /\ svcLocals.step \in { "welcome", "confirm", "error" }
               /\ svcWorld'.file = svcWorld.file
               /\ svcPc' = "exited"
          /\ FrameStepVisited("frame1", "frame1-enabled", "frame1-command")
          /\ FrameStepVisited("frame2", "frame2-enabled", "frame2-command")]_vars
  /\ [](svcCall.fn = "InitWizard" =>
          /\ svcLocals.step = "complete" =>
               (LastEvent = "saved" /\ svcWorld.file = FileOf(svcLocals.config))
          /\ (svcLocals.step = "error" /\ svcPc # "exited") => LastEvent = "failed"
          /\ svcLocals.step = "saving" <=> svcPc = "saveConfig")

\* a second save succeeded after a first one failed, frame 1 disabled and
\* frame 2 enabled
C40_Witness ==
  /\ svcCall.fn = "InitWizard"
  /\ svcLocals.step = "complete"
  /\ svcTrace = << "confirmed", "failed", "confirmed", "saved" >>
  /\ ~svcLocals.config.frame1.enabled
  /\ svcLocals.config.frame2.enabled
  /\ svcWorld.file = FileOf(svcLocals.config)

====
